---- MODULE Spec2Model ----
(***************************************************************************)
(* Template-driven field extraction for Moroccan administrative documents *)
(* (repository OCR-intern): the field normalizers of                      *)
(* src/postprocessing/validators.py, the region locator, language routing *)
(* and candidate selection of src/templates/template_extractor.py, and    *)
(* the cross-language overlap resolver of src/ocr/hybrid.py.              *)
(*                                                                         *)
(* Strings are sequences of characters; a character is a one-letter TLA+  *)
(* string, except the characters outside ASCII, which are written         *)
(* "ar0".."ar9" (the Arabic-indic digits U+0660..U+0669), "a^", "i:",      *)
(* "e^" (a-circumflex, i-diaeresis, e-acute) and "A^", "I:", "E^".         *)
(* Confidences are floats in the code; the model counts them in tenths    *)
(* (900 is 90.0), so that the +0.1 bias of the digits candidate is +1.    *)
(***************************************************************************)
EXTENDS Integers, Sequences, FiniteSets, TLC

VARIABLES
    hash_seed,      \* the process's string-hash seed: fixes the iteration order of the set COMMUNES_CASA
    n_pc, n_key, n_text, n_out,                 \* one call of normalize_field
    b_pc, b_H, b_W, b_rel, b_out,               \* one call of TemplateExtractor._abs_box
    pc, template_key, image, engines, backend,  \* one call of TemplateExtractor.run: its arguments,
    idx, out, err, calls,                       \*   the loop position, the result under construction, the engine invocations
    d_pc, arabic, french, keep_ar, keep_fr,     \* one call of HybridOCR._dedupe_overlaps
    l_pc, l_loader, l_file, l_templates, l_idx, \* one template file, loaded by one of the two loaders and then run
    f_pc, f_name, f_in, f_out                   \* one call of the function f_name with the argument f_in

normVars == <<n_pc, n_key, n_text, n_out>>
boxVars == <<b_pc, b_H, b_W, b_rel, b_out>>
runVars == <<pc, template_key, image, engines, backend, idx, out, err, calls>>
dedupeVars == <<d_pc, arabic, french, keep_ar, keep_fr>>
loadVars == <<l_pc, l_loader, l_file, l_templates, l_idx>>
fnVars == <<f_pc, f_name, f_in, f_out>>
vars == <<hash_seed, normVars, boxVars, runVars, dedupeVars, loadVars, fnVars>>

-----------------------------------------------------------------------------
(* Characters and the str methods the code uses *)

\* Python's None where a str is expected, and the outcome of an operation that raises
NoneStr == <<"<None>">>
RaiseStr == <<"<raise>">>

AsciiDigits == <<"0", "1", "2", "3", "4", "5", "6", "7", "8", "9">>
ArDigits == <<"ar0", "ar1", "ar2", "ar3", "ar4", "ar5", "ar6", "ar7", "ar8", "ar9">>
LowerLetters == <<"a", "b", "c", "d", "e", "f", "g", "h", "i", "j", "k", "l", "m", "n", "o", "p",
                  "q", "r", "s", "t", "u", "v", "w", "x", "y", "z", "a^", "i:", "e^">>
UpperLetters == <<"A", "B", "C", "D", "E", "F", "G", "H", "I", "J", "K", "L", "M", "N", "O", "P",
                  "Q", "R", "S", "T", "U", "V", "W", "X", "Y", "Z", "A^", "I:", "E^">>

Range(f) == {f[i] : i \in DOMAIN f}
IndexOf(seq, c) == CHOOSE i \in DOMAIN seq : seq[i] = c

IsAsciiDigit(c) == c \in Range(AsciiDigits)
IsArDigit(c) == c \in Range(ArDigits)
\* \d of a str pattern: any Unicode decimal digit
IsDigit(c) == IsAsciiDigit(c) \/ IsArDigit(c)
\* [A-Z]
IsAZ(c) == \E i \in 1..26 : UpperLetters[i] = c
IsLetter(c) == c \in Range(LowerLetters) \/ c \in Range(UpperLetters)
\* \s
IsSpace(c) == c \in {" ", "\t"}

UpperCh(c) == IF c \in Range(LowerLetters) THEN UpperLetters[IndexOf(LowerLetters, c)] ELSE c
LowerCh(c) == IF c \in Range(UpperLetters) THEN LowerLetters[IndexOf(UpperLetters, c)] ELSE c

\* a method call on None raises; a raise propagates
Bad(s) == s = NoneStr \/ s = RaiseStr
\* s without the guard: None stays None
OrEmptyUnguarded(s) == s
\* s or ""
OrEmpty(s) == IF s = NoneStr THEN <<>> ELSE s

Upper(s) == IF Bad(s) THEN RaiseStr ELSE [i \in 1..Len(s) |-> UpperCh(s[i])]
Lower(s) == IF Bad(s) THEN RaiseStr ELSE [i \in 1..Len(s) |-> LowerCh(s[i])]
\* str.title(): a letter that follows a letter is lowered, any other letter is raised
Title(s) ==
    IF Bad(s) THEN RaiseStr
    ELSE [i \in 1..Len(s) |-> IF i > 1 /\ IsLetter(s[i-1]) THEN LowerCh(s[i]) ELSE UpperCh(s[i])]
\* str.replace(a, b) for one-character a and b
Replace(s, a, b) == IF Bad(s) THEN RaiseStr ELSE [i \in 1..Len(s) |-> IF s[i] = a THEN b ELSE s[i]]

\* sub in s: s has sub as a contiguous substring
Contains(s, sub) ==
    \E i \in 0..(Len(s) - Len(sub)) : \A j \in 1..Len(sub) : s[i + j] = sub[j]
StartsWith(s, pre) == Len(pre) <= Len(s) /\ \A j \in 1..Len(pre) : s[j] = pre[j]
\* a slice that drops nothing
DropNothing(s, n) == s
\* s[n:]
Drop(s, n) == SubSeq(s, n + 1, Len(s))

RECURSIVE KeepIf(_, _, _)
\* the characters s[i..] at the positions where keep holds, in order
KeepIf(s, keep, i) ==
    IF i > Len(s) THEN <<>>
    ELSE (IF keep[i] THEN <<s[i]>> ELSE <<>>) \o KeepIf(s, keep, i + 1)

ar2en_digits(s) ==
    LET t == OrEmpty(s)
    IN  IF Bad(t) THEN RaiseStr
        ELSE [i \in 1..Len(t) |-> IF IsArDigit(t[i]) THEN AsciiDigits[IndexOf(ArDigits, t[i])] ELSE t[i]]

squash_spaces(s) ==
    LET t == OrEmpty(s)
        \* re.sub(r"\s+", " ", t).strip(): of each whitespace run between two words one space stays
        keep == [i \in 1..Len(t) |->
                    \/ ~IsSpace(t[i])
                    \/ /\ i > 1
                       /\ ~IsSpace(t[i-1])
                       /\ \E j \in (i+1)..Len(t) : ~IsSpace(t[j])]
        u == [i \in 1..Len(t) |-> IF IsSpace(t[i]) THEN " " ELSE t[i]]
    IN  IF Bad(t) THEN RaiseStr ELSE KeepIf(u, keep, 1)

\* the length of the run of \d characters of s that starts at position p
RECURSIVE DigitRun(_, _)
DigitRun(s, p) == IF p >= 1 /\ p <= Len(s) /\ IsDigit(s[p]) THEN 1 + DigitRun(s, p + 1) ELSE 0
RECURSIVE SpaceRun(_, _)
SpaceRun(s, p) == IF p >= 1 /\ p <= Len(s) /\ IsSpace(s[p]) THEN 1 + SpaceRun(s, p + 1) ELSE 0

DigitVal(c) == IF IsAsciiDigit(c) THEN IndexOf(AsciiDigits, c) - 1 ELSE IndexOf(ArDigits, c) - 1
\* int(s) of a string of digits; int() of anything else raises ValueError (-1 here)
RECURSIVE ParseInt(_)
ParseInt(s) ==
    IF Len(s) = 0 \/ \E i \in 1..Len(s) : ~IsDigit(s[i]) THEN -1
    ELSE IF Len(s) = 1 THEN DigitVal(s[1])
    ELSE 10 * ParseInt(SubSeq(s, 1, Len(s) - 1)) + DigitVal(s[Len(s)])
\* f"{n:0{width}d}" for n >= 0
RECURSIVE FormatInt(_, _)
FormatInt(n, width) ==
    IF n < 10 /\ width <= 1 THEN <<AsciiDigits[n + 1]>>
    ELSE FormatInt(n \div 10, width - 1) \o <<AsciiDigits[(n % 10) + 1]>>

Max(S) == CHOOSE x \in S : \A y \in S : y <= x
Min(S) == CHOOSE x \in S : \A y \in S : x <= y
MinOf(a, b) == IF a <= b THEN a ELSE b
MaxOf(a, b) == IF a >= b THEN a ELSE b

-----------------------------------------------------------------------------
(* src/postprocessing/validators.py *)

ArabicLetters == {"u0627", "u0629", "u062A", "u062C", "u062E", "u0631", "u0633", "u0635", "u0639",
                  "u0641", "u0642", "u0644", "u0645", "u0647", "u0648", "u064A"}
\* U+0600 <= ch <= U+06FF: the Arabic block holds the letters and the Arabic-indic digits
IsArabicCh(c) == c \in ArabicLetters \/ IsArDigit(c)
\* \w
IsWordCh(c) == IsLetter(c) \/ IsDigit(c) \/ c = "_" \/ c \in ArabicLetters

COMMUNES_CASA == <<
    <<"A", "n", "f", "a">>,
    <<"S", "i", "d", "i", " ", "B", "e", "l", "y", "o", "u", "t">>,
    <<"M", "a", "a^", "r", "i", "f">>,
    <<"R", "o", "c", "h", "e", "s", " ", "N", "o", "i", "r", "e", "s">>,
    <<"A", "i:", "n", " ", "S", "e", "b", "a", "a^">>,
    <<"A", "i:", "n", " ", "C", "h", "o", "c", "k">>,
    <<"H", "a", "y", " ", "H", "a", "s", "s", "a", "n", "i">>,
    <<"S", "i", "d", "i", " ", "O", "t", "h", "m", "a", "n", "e">>,
    <<"S", "i", "d", "i", " ", "B", "e", "r", "n", "o", "u", "s", "s", "i">>,
    <<"B", "e", "n", " ", "M", "'", "S", "i", "c", "k">>,
    <<"M", "o", "u", "l", "a", "y", " ", "R", "a", "c", "h", "i", "d">>,
    <<"B", "o", "u", "s", "k", "o", "u", "r", "a">>,
    <<"D", "a", "r", " ", "B", "o", "u", "a", "z", "z", "a">>,
    <<"M", "e^", "d", "i", "o", "u", "n", "a">> >>

\* a normalizer's return value, and the outcome of a normalizer that raises
Rec(type, value, valid) == [type |-> type, value |-> value, valid |-> valid]
Raised == Rec("<raise>", <<>>, FALSE)
\* re.search found nothing
NoMatch == [i |-> 0]

\* re.search(r"([A-Z]{1,2})\s*[- ]?(\d{5,6})", raw): the leftmost match, each quantifier greedy
CinSearch(raw) ==
    LET L == Len(raw)
        \* the ways the pattern matches from position i on
        At(i) == {m \in [i : {i}, nl : 1..2, k : 0..SpaceRun(raw, i + 1) \cup 0..SpaceRun(raw, i + 2),
                         sep : 0..1, nd : 5..6] :
                    /\ m.i + m.nl - 1 <= L
                    /\ \A q \in m.i..(m.i + m.nl - 1) : IsAZ(raw[q])
                    /\ m.k <= SpaceRun(raw, m.i + m.nl)
                    /\ m.sep = 1 => /\ m.i + m.nl + m.k <= L
                                    /\ raw[m.i + m.nl + m.k] \in {"-", " "}
                    /\ m.nd <= DigitRun(raw, m.i + m.nl + m.k + m.sep)}
        starts == {i \in 1..L : IsAZ(raw[i]) /\ At(i) # {}}
        \* the backtracking order: more letters, more whitespace, the separator, more digits
        w(m) == ((m.nl * (L + 1) + m.k) * 2 + m.sep) * 7 + m.nd
    IN  IF starts = {} THEN NoMatch
        ELSE CHOOSE m \in At(Min(starts)) : \A o \in At(Min(starts)) : w(o) <= w(m)

normalize_cin(s) ==
    LET raw == ar2en_digits(Upper(OrEmpty(s)))
        m == IF Bad(raw) THEN NoMatch ELSE CinSearch(raw)
        p == m.i + m.nl + m.k + m.sep
    IN  IF Bad(raw) THEN Raised
        ELSE IF m = NoMatch THEN Rec("cin", squash_spaces(s), FALSE)
        ELSE Rec("cin", SubSeq(raw, m.i, m.i + m.nl - 1) \o SubSeq(raw, p, p + m.nd - 1), TRUE)

\* re.search(r"(\d{1,2})/(\d{1,2})/(\d{2,4})", t)
DateSearch(t) ==
    LET L == Len(t)
        ms == {m \in [i : 1..L, n1 : 1..2, n2 : 1..2, n3 : 2..4] :
                 /\ m.i + m.n1 + 1 + m.n2 + 1 + m.n3 - 1 <= L
                 /\ m.n1 <= DigitRun(t, m.i)
                 /\ t[m.i + m.n1] = "/"
                 /\ m.n2 <= DigitRun(t, m.i + m.n1 + 1)
                 /\ t[m.i + m.n1 + 1 + m.n2] = "/"
                 /\ m.n3 <= DigitRun(t, m.i + m.n1 + 1 + m.n2 + 1)}
        w(m) == (((L - m.i) * 3 + m.n1) * 3 + m.n2) * 5 + m.n3
    IN  IF ms = {} THEN NoMatch ELSE CHOOSE m \in ms : \A o \in ms : w(o) <= w(m)

\* y = (y+2000) if y<100 and y<50 else ((y+1900) if y<100 else y)
DateYear(y) == IF y < 100 /\ y < 50 THEN y + 2000 ELSE IF y < 100 THEN y + 1900 ELSE y
DateOk(d, mo, y) == 1 <= d /\ d <= 31 /\ 1 <= mo /\ mo <= 12 /\ 1900 <= y /\ y <= 2100

\* d, mo, y = map(int, m.groups()): the groups of no match raise
DateGroups(t, m) ==
    IF m = NoMatch THEN <<-1, -1, -1>>
    ELSE <<ParseInt(SubSeq(t, m.i, m.i + m.n1 - 1)),
           ParseInt(SubSeq(t, m.i + m.n1 + 1, m.i + m.n1 + m.n2)),
           ParseInt(SubSeq(t, m.i + m.n1 + m.n2 + 2, m.i + m.n1 + m.n2 + 1 + m.n3))>>

normalize_date_ma(s) ==
    LET t == Replace(Replace(ar2en_digits(OrEmpty(s)), ".", "/"), "-", "/")
        m == IF Bad(t) THEN NoMatch ELSE DateSearch(t)
        g == DateGroups(t, m)
        y == DateYear(g[3])
        ok == DateOk(g[1], g[2], y)
    IN  IF Bad(t) THEN Raised
        ELSE IF m = NoMatch THEN Rec("date", squash_spaces(s), FALSE)
        ELSE IF g[1] < 0 \/ g[2] < 0 \/ g[3] < 0 THEN Raised
        ELSE Rec("date",
                 IF ok THEN FormatInt(y, 4) \o <<"-">> \o FormatInt(g[2], 2) \o <<"-">> \o FormatInt(g[1], 2)
                 ELSE squash_spaces(s),
                 ok)

\* re.sub(r"\D+", "", t) and re.sub(r"\D", "", t)
OnlyDigits(t) == IF Bad(t) THEN RaiseStr ELSE KeepIf(t, [i \in 1..Len(t) |-> IsDigit(t[i])], 1)

normalize_phone_ma(s) ==
    LET t0 == OnlyDigits(ar2en_digits(OrEmpty(s)))
        t1 == IF StartsWith(t0, <<"2", "1", "2">>) THEN Drop(t0, 3) ELSE t0
        t == IF StartsWith(t1, <<"0">>) THEN Drop(t1, 1) ELSE t1
    IN  IF Bad(t0) THEN Raised
        ELSE Rec("phone",
                 IF Len(t) = 9 THEN <<"+", "2", "1", "2">> \o t ELSE squash_spaces(s),
                 Len(t) = 9)

\* (?:[/-]\d{2,4}){1,3} from position p with `left` repetitions still allowed: the position
\* after the last repetition taken (p when none matches); each repetition is greedy
RECURSIVE ReceiptGroups(_, _, _)
ReceiptGroups(t, p, left) ==
    IF left = 0 \/ p > Len(t) \/ t[p] \notin {"/", "-"} \/ DigitRun(t, p + 1) < 2 THEN p
    ELSE ReceiptGroups(t, p + 1 + MinOf(DigitRun(t, p + 1), 4), left - 1)

\* re.search(r"(\d{1,6}(?:[/-]\d{2,4}){1,3})", t): [i, n0, e], the match is t[i..e-1]
ReceiptSearch(t) ==
    LET L == Len(t)
        ms == {m \in [i : 1..L, n0 : 1..6] :
                 /\ m.n0 <= DigitRun(t, m.i)
                 /\ ReceiptGroups(t, m.i + m.n0, 3) > m.i + m.n0}
        w(m) == (L - m.i) * 7 + m.n0
        b == CHOOSE m \in ms : \A o \in ms : w(o) <= w(m)
    IN  IF ms = {} THEN NoMatch ELSE [i |-> b.i, n0 |-> b.n0, e |-> ReceiptGroups(t, b.i + b.n0, 3)]

normalize_receipt_no(s) ==
    LET t == ar2en_digits(OrEmpty(s))
        m == IF Bad(t) THEN NoMatch ELSE ReceiptSearch(t)
    IN  IF Bad(t) THEN Raised
        ELSE IF m = NoMatch THEN Rec("receipt_no", squash_spaces(s), FALSE)
        ELSE Rec("receipt_no", Replace(SubSeq(t, m.i, m.e - 1), "-", "/"), TRUE)

normalize_ice(s) ==
    LET t == OnlyDigits(ar2en_digits(OrEmpty(s)))
    IN  IF Bad(t) THEN Raised ELSE Rec("ice", t, Len(t) = 15)

normalize_if(s) ==
    LET t == OnlyDigits(ar2en_digits(OrEmpty(s)))
    IN  IF Bad(t) THEN Raised ELSE Rec("if", t, 7 <= Len(t) /\ Len(t) <= 8)

\* `for c in COMMUNES_CASA`: the iteration order of a set of str is fixed by the process's
\* hash seed; every member can come first
CommuneOrder ==
    LET N == Len(COMMUNES_CASA)
    IN  [i \in 1..N |-> COMMUNES_CASA[((i + hash_seed - 2) % N) + 1]]

\* base.lower() in c.lower() or c.lower() in base.lower(), for the lowered base
CommuneHit(lbase, c) == LET lc == Lower(c) IN Contains(lc, lbase) \/ Contains(lbase, lc)

normalize_commune(s) ==
    LET base == Title(squash_spaces(s))
        lbase == Lower(base)
        hits == {i \in DOMAIN CommuneOrder : CommuneHit(lbase, CommuneOrder[i])}
    IN  IF Bad(base) THEN Raised
        ELSE IF hits # {} THEN Rec("commune", CommuneOrder[Min(hits)], TRUE)
        ELSE Rec("commune", base, TRUE)

normalize_name(s) ==
    IF Bad(squash_spaces(s)) THEN Raised
    ELSE Rec("name", squash_spaces(s), squash_spaces(s) # <<>>)

\* the substrings of the field key that select a normalizer (validators.py:58-68)
CinMarkers ==
    {<<"c", "i", "n">>,
     <<"c", "n", "i", "e">>}
DateMarkers ==
    {<<"d", "a", "t", "e">>,
     <<"d", "e", "l", "i", "v">>,
     <<"d", "e^", "l", "i", "v", "r">>,
     <<"n", "a", "i", "s", "s", "a", "n", "c", "e">>,
     <<"d", "o", "b">>,
     <<"u062A", "u0627", "u0631", "u064A", "u062E">>}
PhoneMarkers ==
    {<<"t", "e", "l">>,
     <<"t", "e^", "l">>,
     <<"p", "h", "o", "n", "e">>,
     <<"g", "s", "m">>,
     <<"u0647", "u0627", "u062A", "u0641">>}
ReceiptMarkers ==
    {<<"r", "e", "c", "e", "p">>,
     <<"r", "e^", "c", "e^", "p">>,
     <<"r", "e", "c", "e", "i", "p", "t">>,
     <<"u0648", "u0635", "u0644">>,
     <<"u0631", "u0642", "u0645", " ", "u0627", "u0644", "u0648", "u0635", "u0644">>}
CommuneMarkers ==
    {<<"c", "o", "m", "m", "u", "n", "e">>,
     <<"a", "r", "r", "o", "n", "d", "i", "s", "s", "e", "m", "e", "n", "t">>,
     <<"p", "r", "e", "f", "e", "c", "t", "u", "r", "e">>,
     <<"w", "i", "l", "a", "y", "a">>,
     <<"p", "r", "o", "v", "i", "n", "c", "e">>}
NameMarkers ==
    {<<"p", "r", "e^", "s", "i", "d", "e", "n", "t">>,
     <<"p", "r", "e", "s", "i", "d", "e", "n", "t">>,
     <<"s", "e", "c", "r">>,
     <<"t", "r", "e^", "s", "o", "r">>,
     <<"a", "s", "s", "o", "c", "i", "a", "t", "i", "o", "n">>,
     <<"i", "n", "t", "i", "t", "u", "l">>,
     <<"n", "a", "m", "e">>,
     <<"n", "o", "m">>,
     <<"u0627", "u0633", "u0645", " ", "u0627", "u0644", "u062C", "u0645", "u0639", "u064A", "u0629">>}
IceMarker == <<"i", "c", "e">>

\* any(x in k for x in markers)
AnyIn(k, markers) == \E x \in markers : Contains(k, x)
\* re.search(r"\bif\b", k)
IfWord(k) ==
    \E i \in 1..(Len(k) - 1) :
        /\ k[i] = "i" /\ k[i + 1] = "f"
        /\ (i = 1 \/ ~IsWordCh(k[i - 1]))
        /\ (i + 1 = Len(k) \/ ~IsWordCh(k[i + 2]))

normalize_field(key, text) ==
    LET k == Lower(OrEmpty(key))
        t == OrEmpty(text)
    IN  IF Bad(k) THEN Raised
        ELSE IF AnyIn(k, CinMarkers) THEN normalize_cin(t)
        ELSE IF AnyIn(k, DateMarkers) THEN normalize_date_ma(t)
        ELSE IF AnyIn(k, PhoneMarkers) THEN normalize_phone_ma(t)
        ELSE IF AnyIn(k, ReceiptMarkers) THEN normalize_receipt_no(t)
        ELSE IF Contains(k, IceMarker) THEN normalize_ice(t)
        ELSE IF IfWord(k) THEN normalize_if(t)
        ELSE IF AnyIn(k, CommuneMarkers) THEN normalize_commune(t)
        ELSE IF AnyIn(k, NameMarkers) THEN normalize_name(t)
        ELSE IF Bad(squash_spaces(ar2en_digits(t))) \/ Bad(squash_spaces(t)) THEN Raised
        ELSE Rec("text", squash_spaces(ar2en_digits(t)), squash_spaces(t) # <<>>)

-----------------------------------------------------------------------------
(* Inputs of the calls: bounded sets of field keys and raw texts *)

\* the longest raw text is MaxPieces pieces long
MaxPieces == 3

\* field keys "section.name", one or more for every branch of normalize_field
NormKeys ==
    {<<"b", "o", "d", "y", ".", "c", "i", "n">>,
     <<"B", "o", "d", "y", ".", "C", "N", "I", "E">>,
     <<"b", "o", "d", "y", ".", "d", "a", "t", "e", ".", "f", "r">>,
     <<"b", "o", "d", "y", ".", "t", "e", "l">>,
     <<"b", "o", "d", "y", ".", "r", "e", "c", "e", "i", "p", "t", "_", "n", "o">>,
     <<"b", "o", "d", "y", ".", "i", "c", "e">>,
     <<"b", "o", "d", "y", ".", "i", "f">>,
     <<"h", "e", "a", "d", "e", "r", ".", "c", "o", "m", "m", "u", "n", "e", ".", "f", "r">>,
     <<"b", "o", "d", "y", ".", "a", "s", "s", "o", "c", "i", "a", "t", "i", "o", "n", "_", "n", "a", "m", "e", ".", "f", "r">>,
     <<"t", "i", "t", "l", "e", ".", "f", "r">>,
     <<"b", "o", "d", "y", ".", "i", "f", "_", "n", "o">>}

\* the fragments raw texts are made of: letters, separators, ASCII and Arabic-indic digits, digit groups
Pieces ==
    {<<"A">>,
     <<"b">>,
     <<" ">>,
     <<"-">>,
     <<"/">>,
     <<".">>,
     <<"1">>,
     <<"ar2">>,
     <<"1", "2", "3", "4", "5">>,
     <<"1", "2", "/">>,
     <<"2", "0", "2", "5">>}

RECURSIVE TextsUpTo(_)
TextsUpTo(n) == IF n = 0 THEN {<<>>} ELSE TextsUpTo(n - 1) \cup {t \o q : t \in TextsUpTo(n - 1), q \in Pieces}
Texts == TextsUpTo(MaxPieces)

Seeds == 1..Len(COMMUNES_CASA)
NoOut == Rec("<none>", <<>>, FALSE)

IsCommuneKey(key) == normalize_field(key, <<>>).type = "commune"

-----------------------------------------------------------------------------
(* The variables of the calls that a specification does not make *)

NormIdle == n_pc = "idle" /\ n_key = <<>> /\ n_text = <<>> /\ n_out = NoOut
BoxIdle == b_pc = "idle" /\ b_H = 1 /\ b_W = 1 /\ b_rel = <<>> /\ b_out = <<>>
RunIdle ==
    /\ pc = "idle" /\ template_key = "" /\ image = <<>> /\ engines = {}
    /\ backend = [tokens |-> {}, max |-> 0, faults |-> {}, printed |-> FALSE]
    /\ idx = 0 /\ out = [fields |-> <<>>, raw |-> <<>>, metadata |-> ""] /\ err = "" /\ calls = <<>>
FnIdle == f_pc = "idle" /\ f_name = "" /\ f_in = <<>> /\ f_out = 0
LoadIdle == l_pc = "idle" /\ l_loader = "" /\ l_file = <<>> /\ l_templates = <<>> /\ l_idx = 0
DedupeIdle == d_pc = "idle" /\ arabic = <<>> /\ french = <<>> /\ keep_ar = <<>> /\ keep_fr = <<>>

-----------------------------------------------------------------------------
(* One call normalize_field(n_key, n_text) *)

InitNorm ==
    /\ hash_seed \in Seeds
    /\ n_key \in NormKeys \cup {NoneStr}
    \* the seed matters to the administrative-area keys alone
    /\ IsCommuneKey(n_key) \/ hash_seed = 1
    /\ n_pc = "call"
    /\ n_text \in Texts \cup {NoneStr}
    /\ n_out = NoOut
    /\ BoxIdle /\ RunIdle /\ DedupeIdle /\ LoadIdle /\ FnIdle

NormalizeField ==
    /\ n_pc = "call"
    /\ n_out' = normalize_field(n_key, n_text)
    /\ n_pc' = "done"
    /\ UNCHANGED <<hash_seed, n_key, n_text, boxVars, runVars, dedupeVars, loadVars, fnVars>>

NextNorm == NormalizeField
SpecNorm == InitNorm /\ [][NextNorm]_vars

-----------------------------------------------------------------------------
(* src/templates/template_extractor.py: TemplateExtractor._abs_box *)

\* a relative coordinate is RelNum / RelDen; RelDen is a power of two, so the float product is exact
RelDen == 4
\* images are 1..MaxDim pixels high and wide
MaxDim == 4
\* relative coordinates from below 0 to above 1
RelNums == (-1)..(RelDen + 1)
Rels == [x : RelNums, y : RelNums, w : RelNums, h : RelNums]

\* int(r * D): the product truncated toward zero
IntOfProduct(num, D) ==
    IF num * D >= 0 THEN (num * D) \div RelDen ELSE -((-(num * D)) \div RelDen)

\* lines 59-64 without the clamps of w and h to the image's right and bottom edges
AbsBoxNoWidthClamp(H, W, rel) ==
    LET x == MaxOf(0, MinOf(IntOfProduct(rel.x, W), W - 1))
        y == MaxOf(0, MinOf(IntOfProduct(rel.y, H), H - 1))
    IN  <<x, y, MaxOf(1, IntOfProduct(rel.w, W)), MaxOf(1, IntOfProduct(rel.h, H))>>

_abs_box(H, W, rel) ==
    LET x0 == IntOfProduct(rel.x, W)
        y0 == IntOfProduct(rel.y, H)
        w0 == IntOfProduct(rel.w, W)
        h0 == IntOfProduct(rel.h, H)
        x == MaxOf(0, MinOf(x0, W - 1))
        y == MaxOf(0, MinOf(y0, H - 1))
        w == MaxOf(1, MinOf(w0, W - x))
        h == MaxOf(1, MinOf(h0, H - y))
    IN  <<x, y, w, h>>

InitBox ==
    /\ hash_seed = 1
    /\ b_pc = "call"
    /\ b_H \in 1..MaxDim
    /\ b_W \in 1..MaxDim
    /\ b_rel \in Rels
    /\ b_out = <<>>
    /\ NormIdle /\ RunIdle /\ DedupeIdle /\ LoadIdle /\ FnIdle

AbsBox ==
    /\ b_pc = "call"
    /\ b_out' = _abs_box(b_H, b_W, b_rel)
    /\ b_pc' = "done"
    /\ UNCHANGED <<hash_seed, b_H, b_W, b_rel, normVars, runVars, dedupeVars, loadVars, fnVars>>

NextBox == AbsBox
SpecBox == InitBox /\ [][NextBox]_vars

\* C3: the box _abs_box returns is non-empty and inside the image: 0 <= x <= W-1,
\* 0 <= y <= H-1, 1 <= w <= W-x, 1 <= h <= H-y, for every relative box, in or out of [0,1]
C3_BoxInBounds ==
    b_pc = "done" =>
        /\ 0 <= b_out[1] /\ b_out[1] <= b_W - 1
        /\ 0 <= b_out[2] /\ b_out[2] <= b_H - 1
        /\ 1 <= b_out[3] /\ b_out[3] <= b_W - b_out[1]
        /\ 1 <= b_out[4] /\ b_out[4] <= b_H - b_out[2]

\* a region that starts right of the image and above it, is wider than it and has no height,
\* on an image of more than one pixel: every clamp of _abs_box has acted
C3_Witness ==
    /\ b_pc = "done"
    /\ b_W > 1 /\ b_H > 1
    /\ IntOfProduct(b_rel.x, b_W) >= b_W /\ IntOfProduct(b_rel.w, b_W) > b_W
    /\ IntOfProduct(b_rel.y, b_H) < 0 /\ b_rel.h = 0
    /\ b_out = <<b_W - 1, 0, 1, 1>>

-----------------------------------------------------------------------------
(* src/templates/template_extractor.py: TemplateExtractor.run *)

\* an engine returns at most MaxTokens tokens for one region
MaxTokens == 2
DigitsBias == 1

\* str literals of run()
ReceiptNoName == <<"r", "e", "c", "e", "i", "p", "t", "_", "n", "o">>
TitleSection == <<"t", "i", "t", "l", "e">>
ArName == <<"a", "r">>

\* self.templates, as loaded from the JSON file: template id -> the regions in file order.
\* lang "" is a region without a lang hint. The hints that only shape the engine's
\* configuration string (psm, oem, dpi, scale, whitelist, blacklist) are part of the opaque call.
\* the regions of the template assoc_receipt, in the order scripts/gen_fake_assoc.py reads them
AssocReceipt ==
    <<[section |-> <<"t", "i", "t", "l", "e">>, name |-> <<"f", "r">>, lang |-> "", rel |-> [x |-> 0, y |-> 0, w |-> 2, h |-> 1]],
      [section |-> <<"t", "i", "t", "l", "e">>, name |-> <<"a", "r">>, lang |-> "", rel |-> [x |-> 2, y |-> 0, w |-> 2, h |-> 1]],
      [section |-> <<"h", "e", "a", "d", "e", "r">>, name |-> <<"c", "o", "m", "m", "u", "n", "e", ".", "f", "r">>, lang |-> "", rel |-> [x |-> 0, y |-> 1, w |-> 2, h |-> 1]],
      [section |-> <<"h", "e", "a", "d", "e", "r">>, name |-> <<"c", "o", "m", "m", "u", "n", "e", ".", "a", "r">>, lang |-> "arabic", rel |-> [x |-> 2, y |-> 1, w |-> 2, h |-> 1]],
      [section |-> <<"b", "o", "d", "y">>, name |-> <<"a", "s", "s", "o", "c", "i", "a", "t", "i", "o", "n", "_", "n", "a", "m", "e", ".", "f", "r">>, lang |-> "", rel |-> [x |-> 0, y |-> 2, w |-> 2, h |-> 1]],
      [section |-> <<"b", "o", "d", "y">>, name |-> <<"a", "s", "s", "o", "c", "i", "a", "t", "i", "o", "n", "_", "n", "a", "m", "e", ".", "a", "r">>, lang |-> "arabic", rel |-> [x |-> 2, y |-> 2, w |-> 2, h |-> 1]],
      [section |-> <<"b", "o", "d", "y">>, name |-> <<"r", "e", "c", "e", "i", "p", "t", "_", "n", "o">>, lang |-> "french", rel |-> [x |-> 0, y |-> 3, w |-> 2, h |-> 1]],
      [section |-> <<"b", "o", "d", "y">>, name |-> <<"d", "a", "t", "e", ".", "f", "r">>, lang |-> "", rel |-> [x |-> 2, y |-> 3, w |-> 2, h |-> 1]]>>

\* what scripts/gen_fake_assoc.py prints into each of these regions
PrintedTexts ==
    <<<<"P", "R", "E^", "F", "E", "C", "T", "U", "R", "E", " ", "D", "E", " ", "C", "A", "S", "A", "B", "L", "A", "N", "C", "A", " ", "u2013", " ", "A", "R", "R", "O", "N", "D", "I", "S", "S", "E", "M", "E", "N", "T">>,
      <<"u0648", "u0644", "u0627", "u064A", "u0629", " ", "u0627", "u0644", "u062F", "u0627", "u0631", " ", "u0627", "u0644", "u0628", "u064A", "u0636", "u0627", "u0621">>,
      <<"C", "o", "m", "m", "u", "n", "e", " ", "d", "e", " ", "C", "a", "s", "a", "b", "l", "a", "n", "c", "a">>,
      <<"u062C", "u0645", "u0627", "u0639", "u0629", " ", "u0627", "u0644", "u062F", "u0627", "u0631", " ", "u0627", "u0644", "u0628", "u064A", "u0636", "u0627", "u0621">>,
      <<"A", "s", "s", "o", "c", "i", "a", "t", "i", "o", "n", " ", "A", "M", "A", "L", " ", "p", "o", "u", "r", " ", "l", "e", " ", "D", "e^", "v", "e", "l", "o", "p", "p", "e", "m", "e", "n", "t">>,
      <<"u062C", "u0645", "u0639", "u064A", "u0629", " ", "u0627", "u0644", "u0623", "u0645", "u0644", " ", "u0644", "u0644", "u062A", "u0646", "u0645", "u064A", "u0629">>,
      <<"R", "e", "u00E7", "u", " ", "N", "u00BA", " ", "2", "0", "2", "4", "/", "1", "2", "3", "4">>,
      <<"1", "2", "/", "0", "8", "/", "2", "0", "2", "5">>>>

Templates ==
    [assoc |->
        <<[section |-> <<"t", "i", "t", "l", "e">>, name |-> <<"a", "r">>, lang |-> "", rel |-> [x |-> 0, y |-> 0, w |-> 4, h |-> 4]],
          [section |-> <<"b", "o", "d", "y">>, name |-> <<"r", "e", "c", "e", "i", "p", "t", "_", "n", "o">>, lang |-> "french", rel |-> [x |-> 0, y |-> 2, w |-> 4, h |-> 1]],
          [section |-> <<"b", "o", "d", "y">>, name |-> <<"c", "i", "n">>, lang |-> "", rel |-> [x |-> 1, y |-> 1, w |-> 2, h |-> 2]]>>,
     mixed |->
        <<[section |-> <<"b", "o", "d", "y">>, name |-> <<"r", "e", "c", "e", "i", "p", "t", "_", "n", "o">>, lang |-> "", rel |-> [x |-> 0, y |-> 0, w |-> 4, h |-> 4]],
          [section |-> <<"b", "o", "d", "y">>, name |-> <<"u0627", "u0633", "u0645">>, lang |-> "", rel |-> [x |-> 2, y |-> 0, w |-> 2, h |-> 4]],
          [section |-> <<"t", "i", "t", "l", "e">>, name |-> <<"f", "r">>, lang |-> "arabic", rel |-> [x |-> 0, y |-> 0, w |-> 4, h |-> 4]]>>,
     dotted |->
        <<[section |-> <<"h", "e", "a", "d", "e", "r">>, name |-> <<"c", "o", "m", "m", "u", "n", "e", ".", "f", "r">>, lang |-> "", rel |-> [x |-> 0, y |-> 0, w |-> 4, h |-> 4]],
          [section |-> <<"h", "e", "a", "d", "e", "r", ".", "c", "o", "m", "m", "u", "n", "e">>, name |-> <<"f", "r">>, lang |-> "", rel |-> [x |-> 0, y |-> 0, w |-> 2, h |-> 2]]>>,
     cin |->
        <<[section |-> <<"b", "o", "d", "y">>, name |-> <<"c", "i", "n">>, lang |-> "", rel |-> [x |-> 0, y |-> 0, w |-> 4, h |-> 4]]>>,
     date |->
        <<[section |-> <<"b", "o", "d", "y">>, name |-> <<"d", "a", "t", "e", ".", "f", "r">>, lang |-> "", rel |-> [x |-> 0, y |-> 0, w |-> 4, h |-> 4]]>>,
     receipt |->
        <<[section |-> <<"b", "o", "d", "y">>, name |-> <<"r", "e", "c", "e", "i", "p", "t", "_", "n", "o">>, lang |-> "french", rel |-> [x |-> 0, y |-> 0, w |-> 4, h |-> 4]]>>,
     commune |->
        <<[section |-> <<"h", "e", "a", "d", "e", "r">>, name |-> <<"c", "o", "m", "m", "u", "n", "e", ".", "f", "r">>, lang |-> "", rel |-> [x |-> 0, y |-> 0, w |-> 4, h |-> 4]]>>,
     name |->
        <<[section |-> <<"b", "o", "d", "y">>, name |-> <<"a", "s", "s", "o", "c", "i", "a", "t", "i", "o", "n", "_", "n", "a", "m", "e", ".", "f", "r">>, lang |-> "", rel |-> [x |-> 0, y |-> 0, w |-> 4, h |-> 4]]>>,
     title |->
        <<[section |-> <<"t", "i", "t", "l", "e">>, name |-> <<"f", "r">>, lang |-> "", rel |-> [x |-> 0, y |-> 0, w |-> 4, h |-> 4]]>>,
     assoc_receipt |-> AssocReceipt]
TemplateIds == DOMAIN Templates

EngineKeys == {"french", "arabic", "receipt", "hybrid"}

\* rd.get('bbox', (0,0,1,1)): a token without a bounding box
NoBBox == <<>>
Token(text, confidence, bbox) == [text |-> text, confidence |-> confidence, bbox |-> bbox]

\* f"{section}.{name}"
FieldKey(section, name) == section \o <<".">> \o name

\* lines 92-99: the key of the engine that reads the region
LangKey(section, name, rel_lang) ==
    IF name = ReceiptNoName THEN "receipt"
    ELSE IF rel_lang # "" THEN rel_lang
    ELSE IF (section = TitleSection /\ name = ArName) \/ (\E i \in 1..Len(name) : IsArabicCh(name[i]))
         THEN "arabic" ELSE "french"

\* a fallback to any registered engine instead of the one under 'hybrid'
EngineForAnyKey(engs, lang_key) ==
    IF lang_key \in engs THEN lang_key
    ELSE IF engs # {} THEN CHOOSE e \in engs : TRUE
    ELSE ""

\* engines.get(lang_key) or engines.get('hybrid'): the key of the engine used, "" for None
EngineFor(engs, lang_key) ==
    IF lang_key \in engs THEN lang_key
    ELSE IF "hybrid" \in engs THEN "hybrid"
    ELSE ""

\* max(1, int(w0) * int(h0))
TokenArea(rd) == IF rd.bbox = NoBBox THEN 1 ELSE MaxOf(1, rd.bbox[3] * rd.bbox[4])

\* lines 107-118: (best_text, best_conf, best_area) after the tokens results[i..]
RECURSIVE BestToken(_, _, _)
BestToken(results, i, best) ==
    IF i > Len(results) THEN best
    ELSE LET rd == results[i]
             area == TokenArea(rd)
         IN  BestToken(results, i + 1,
                       IF rd.confidence * area > best[2] * best[3]
                       THEN <<rd.text, rd.confidence, area>> ELSE best)

\* any(ch.isdigit() for ch in t) or "/" in t or "-" in t
Digitish(t) == \E i \in 1..Len(t) : IsDigit(t[i]) \/ t[i] = "/" \/ t[i] = "-"

\* sorted(xs)
RECURSIVE Insert(_, _)
Insert(sorted, v) ==
    IF sorted = <<>> THEN <<v>>
    ELSE IF v < Head(sorted) THEN <<v>> \o sorted
    ELSE <<Head(sorted)>> \o Insert(Tail(sorted), v)
RECURSIVE Sorted(_)
Sorted(xs) == IF xs = <<>> THEN <<>> ELSE Insert(Sorted(Tail(xs)), Head(xs))

RECURSIVE DigitishConfs(_, _)
DigitishConfs(results, i) ==
    IF i > Len(results) THEN <<>>
    ELSE (IF Digitish(results[i].text) THEN <<results[i].confidence>> ELSE <<>>)
         \o DigitishConfs(results, i + 1)

\* lines 120-129: the confidence given to the candidates
BaseConf(results) ==
    LET digitish == DigitishConfs(results, 1)
    IN  IF digitish # <<>> THEN Sorted(digitish)[(Len(digitish) \div 2) + 1]
        ELSE BestToken(results, 1, <<<<>>, 0, 1>>)[2]

\* str.strip()
RECURSIVE Strip(_)
Strip(t) ==
    IF t = <<>> THEN t
    ELSE IF IsSpace(Head(t)) THEN Strip(Tail(t))
    ELSE IF IsSpace(t[Len(t)]) THEN Strip(SubSeq(t, 1, Len(t) - 1))
    ELSE t

\* " ".join([rd.get("text","") for rd in safe_raw]).strip()
RECURSIVE JoinTexts(_, _)
JoinTexts(results, i) ==
    IF i > Len(results) THEN <<>>
    ELSE IF i = Len(results) THEN results[i].text
    ELSE results[i].text \o <<" ">> \o JoinTexts(results, i + 1)
Joined(results) == Strip(JoinTexts(results, 1))

\* re.sub(r"[^\d/-]+", "", joined)
DigitsOnly(joined) ==
    KeepIf(joined, [i \in 1..Len(joined) |-> IsDigit(joined[i]) \/ joined[i] \in {"/", "-"}], 1)

Cand(kind, txt, c) == [kind |-> kind, txt |-> txt, c |-> c]

\* the candidates with the digits-only one given no more confidence than the others
CandidatesNoBias(results) ==
    LET best_conf == BaseConf(results)
        best_text == BestToken(results, 1, <<<<>>, 0, 1>>)[1]
        joined == Joined(results)
        digits_only == DigitsOnly(joined)
    IN  (IF joined # <<>> THEN <<Cand("joined", joined, best_conf)>> ELSE <<>>)
        \o (IF digits_only # <<>> THEN <<Cand("digits", digits_only, best_conf)>> ELSE <<>>)
        \o (IF best_text # <<>> THEN <<Cand("token", best_text, best_conf)>> ELSE <<>>)

\* lines 131-141
Candidates(results) ==
    LET best_conf == BaseConf(results)
        best_text == BestToken(results, 1, <<<<>>, 0, 1>>)[1]
        joined == Joined(results)
        digits_only == DigitsOnly(joined)
    IN  (IF joined # <<>> THEN <<Cand("joined", joined, best_conf)>> ELSE <<>>)
        \o (IF digits_only # <<>> THEN <<Cand("digits", digits_only, best_conf + DigitsBias)>> ELSE <<>>)
        \o (IF best_text # <<>> THEN <<Cand("token", best_text, best_conf)>> ELSE <<>>)

\* the tuple (1 if valid else 0, conf, len(text)) and Python's order of tuples
Score(nrm, c, txt) == <<IF nrm.valid THEN 1 ELSE 0, c, Len(txt)>>
\* the order with the confidence compared before the validity
ScoreGreaterConfFirst(a, b) ==
    \/ a[2] > b[2]
    \/ a[2] = b[2] /\ a[1] > b[1]
    \/ a[2] = b[2] /\ a[1] = b[1] /\ a[3] > b[3]
\* line 150: score > best_score
ScoreGreater(a, b) ==
    \/ a[1] > b[1]
    \/ a[1] = b[1] /\ a[2] > b[2]
    \/ a[1] = b[1] /\ a[2] = b[2] /\ a[3] > b[3]

Chosen(txt, c, nrm) == [text |-> txt, conf |-> c, norm |-> nrm]
\* an initial choice that counts as valid
NoChoiceValid == Chosen(<<>>, 0, Rec("text", <<>>, TRUE))
\* lines 143-145: chosen_text, chosen_conf, chosen_norm before the first candidate
NoChoice == Chosen(<<>>, 0, Rec("text", <<>>, FALSE))

\* lines 143-152: (chosen_text, chosen_conf, chosen_norm) after the candidates cands[i..]
RECURSIVE Select(_, _, _, _)
Select(key, cands, i, chosen) ==
    IF i > Len(cands) THEN chosen
    ELSE LET nrm == normalize_field(key, cands[i].txt)
         IN  IF nrm = Raised THEN Chosen(<<>>, 0, Raised)
             ELSE Select(key, cands, i + 1,
                         IF ScoreGreater(Score(nrm, cands[i].c, cands[i].txt),
                                         Score(chosen.norm, chosen.conf, chosen.text))
                         THEN Chosen(cands[i].txt, cands[i].c, nrm) ELSE chosen)

\* lines 158-166
FieldResult(chosen, lang_key, bbox) ==
    [value |-> chosen.text, norm |-> chosen.norm.value, valid |-> chosen.norm.valid,
     type |-> chosen.norm.type, conf |-> chosen.conf, lang |-> lang_key, bbox |-> bbox]

\* d[k] = v, and d.setdefault(k, []).extend(xs)
Put(d, k, v) == [j \in DOMAIN d \cup {k} |-> IF j = k THEN v ELSE d[j]]
Extend(d, k, xs) == [j \in DOMAIN d \cup {k} |-> IF j = k THEN (IF k \in DOMAIN d THEN d[k] ELSE <<>>) \o xs ELSE d[j]]
EmptyDict == <<>>
EmptyOut == [fields |-> EmptyDict, raw |-> EmptyDict, metadata |-> ""]

\* the tokens an engine may return
\* texts: a letter, a digit group, a date, and no text
TokenTexts ==
    {<<"A">>,
     <<"1", "2", "3", "4", "5">>,
     <<"1", "2", "/", "1", "2", "/", "2", "0", "2", "5">>,
     <<>>}
\* confidences in tenths: the -1 sentinel, 0, 40.0 and 90.0
TokenConfs == {-10, 0, 400, 900}
\* tokens without a box, and tokens of confidence 40.0 with a box of four pixels
Tokens ==
    {Token(t, c, NoBBox) : t \in TokenTexts, c \in TokenConfs}
        \cup {Token(t, 400, <<0, 0, 2, 2>>) : t \in TokenTexts}

RECURSIVE ListsUpTo(_, _)
ListsUpTo(S, n) == IF n = 0 THEN {<<>>} ELSE ListsUpTo(S, n - 1) \cup {l \o <<x>> : l \in ListsUpTo(S, n - 1), x \in S}

Regions == Templates[template_key]

\* the words of a text, each a token of confidence c
RECURSIVE WordTokens(_, _, _, _)
WordTokens(text, c, i, word) ==
    IF i > Len(text) THEN (IF word = <<>> THEN <<>> ELSE <<Token(word, c, NoBBox)>>)
    ELSE IF text[i] = " "
         THEN (IF word = <<>> THEN <<>> ELSE <<Token(word, c, NoBBox)>>) \o WordTokens(text, c, i + 1, <<>>)
         ELSE WordTokens(text, c, i + 1, Append(word, text[i]))

\* the confidences, in tenths, of a legible print: 50.0 and 90.0
PrintedConfs == {500, 900}

\* what engine.process_document may return for region i: any list of at most backend.max of
\* backend.tokens, or, of a backend that reads the print, the printed text of the region
\* word by word, or as one token of the lowest of these confidences
EngineResults(i) ==
    IF backend.printed
    THEN {<<Token(PrintedTexts[i], Min(PrintedConfs), NoBBox)>>}
             \cup {WordTokens(PrintedTexts[i], c, 1, <<>>) : c \in PrintedConfs}
    ELSE ListsUpTo(backend.tokens, backend.max)
Invocation(region, engine, config) == [region |-> region, engine |-> engine, config |-> config]

\* _run_engine, lines 66-76: the engine is called with config=, again with config= after a
\* TypeError, then twice without config; n is the number of calls made
Invocations(region, engine, n) == [j \in 1..n |-> Invocation(region, engine, j <= 2)]

\* line 79: an unknown template id raises KeyError
RunStart ==
    /\ pc = "start"
    /\ IF template_key \notin TemplateIds
       THEN pc' = "error" /\ err' = "KeyError" /\ UNCHANGED <<idx, out>>
       ELSE pc' = "loop" /\ idx' = 1 /\ out' = EmptyOut /\ UNCHANGED err
    /\ UNCHANGED <<hash_seed, template_key, image, engines, backend, calls, normVars, boxVars, dedupeVars, loadVars, fnVars>>

\* one pass of the loop of lines 85-167, for the region Regions[idx]. The engine is the
\* external recognizer: it returns a list of at most backend.max of the tokens backend.tokens,
\* or raises one of backend.faults; a raise leaves run() and its locals
RunRegion ==
    /\ pc = "loop" /\ idx <= Len(Regions)
    /\ LET r == Regions[idx]
           key == FieldKey(r.section, r.name)
           bbox == _abs_box(image[1], image[2], r.rel)
           lang_key == LangKey(r.section, r.name, r.lang)
           engine == EngineFor(engines, lang_key)
       IN  IF engine = ""
           THEN /\ pc' = "error" /\ err' = "RuntimeError" /\ out' = EmptyOut
                /\ UNCHANGED <<idx, calls>>
           ELSE \E n \in 1..4, fault \in backend.faults \cup {""}, results \in EngineResults(idx) :
                  \* calls 1..n-1 raised TypeError, which only an engine with that fault does
                  /\ n > 1 => "TypeError" \in backend.faults
                  \* a TypeError of the last call leaves run() only if it was the fourth
                  /\ fault = "TypeError" => n = 4
                  /\ calls' = calls \o Invocations(idx, engine, n)
                  /\ LET chosen == Select(key, Candidates(results), 1, NoChoice)
                     IN  IF fault # ""
                         THEN pc' = "error" /\ err' = fault /\ out' = EmptyOut /\ UNCHANGED idx
                         ELSE IF chosen.norm = Raised
                         THEN pc' = "error" /\ err' = "NormalizerError" /\ out' = EmptyOut /\ UNCHANGED idx
                         ELSE /\ out' = [out EXCEPT !.fields = Put(@, key, FieldResult(chosen, lang_key, bbox)),
                                                    !.raw = Extend(@, lang_key, results)]
                              /\ idx' = idx + 1
                              /\ UNCHANGED <<pc, err>>
    /\ UNCHANGED <<hash_seed, template_key, image, engines, backend, normVars, boxVars, dedupeVars, loadVars, fnVars>>

\* lines 169-175
RunReturn ==
    /\ pc = "loop" /\ idx > Len(Regions)
    /\ out' = [out EXCEPT !.metadata = template_key]
    /\ pc' = "done"
    /\ UNCHANGED <<hash_seed, template_key, image, engines, backend, idx, err, calls, normVars, boxVars, dedupeVars, loadVars, fnVars>>

NextRun == RunStart \/ RunRegion \/ RunReturn

\* some region of the template has an administrative-area key
HasCommuneKey(tk) ==
    tk \in TemplateIds /\ \E i \in 1..Len(Templates[tk]) :
        IsCommuneKey(FieldKey(Templates[tk][i].section, Templates[tk][i].name))

InitRunCommon ==
    /\ hash_seed \in {1, Len(COMMUNES_CASA)}
    /\ pc = "start"
    /\ HasCommuneKey(template_key) \/ hash_seed = 1
    /\ image = <<MaxDim, MaxDim - 1>>
    /\ idx = 0 /\ out = EmptyOut /\ err = "" /\ calls = <<>>
    /\ NormIdle /\ BoxIdle /\ DedupeIdle /\ LoadIdle /\ FnIdle

\* candidate selection: one region, every token list, an engine that does not fail
InitSelect ==
    /\ template_key \in {"cin", "date", "receipt", "commune", "name", "title"}
    /\ InitRunCommon
    /\ engines = EngineKeys
    /\ backend = [tokens |-> Tokens, max |-> MaxTokens, faults |-> {}, printed |-> FALSE]

SpecSelect == InitSelect /\ [][NextRun]_vars

\* the whole run: several regions, every set of engines, an engine that may fail
RunTokens == {Token(<<"b">>, 900, NoBBox), Token(<<"1">>, -10, NoBBox), Token(<<>>, 900, NoBBox)}

InitRun ==
    /\ template_key \in {"assoc", "mixed", "dotted", "missing"}
    /\ InitRunCommon
    /\ engines \in SUBSET EngineKeys
    /\ backend = [tokens |-> RunTokens, max |-> 1, faults |-> {"TypeError", "BackendError"}, printed |-> FALSE]

SpecRun == InitRun /\ [][NextRun]_vars

\* the receipt scenario of tests/test_assoc_template.py: the engines of the test harness, with
\* and without an engine under 'receipt' or 'hybrid', and a backend that reads the print
InitReceipt ==
    /\ template_key = "assoc_receipt"
    /\ InitRunCommon
    /\ hash_seed = 1
    /\ engines \in {{"french", "arabic"}, {"french", "arabic", "receipt"}, {"french", "arabic", "hybrid"}}
    /\ backend = [tokens |-> {}, max |-> 0, faults |-> {}, printed |-> TRUE]

SpecReceipt == InitReceipt /\ [][NextRun]_vars

-----------------------------------------------------------------------------
(* src/ocr/hybrid.py: HybridOCR._overlap and HybridOCR._dedupe_overlaps *)

\* each language's list holds at most MaxPerLang tokens
MaxPerLang == 2

\* an OCRResult: its box (bbox None is NoBBox) and confidence
Result(bbox, confidence) == [bbox |-> bbox, confidence |-> confidence]

\* _overlap with the edges included: boxes that touch along an edge count as overlapping
OverlapTouching(a, b) ==
    /\ a[1] <= b[1] + b[3]
    /\ a[1] + a[3] >= b[1]
    /\ a[2] <= b[2] + b[4]
    /\ a[2] + a[4] >= b[2]

\* lines 83-87
_overlap(a, b) ==
    /\ a[1] < b[1] + b[3]
    /\ a[1] + a[3] > b[1]
    /\ a[2] < b[2] + b[4]
    /\ a[2] + a[4] > b[2]

\* the comparison of line 103 reversed: ar is dropped when it is the more confident one
ArDroppedWhenHigher(ar, fr_list) ==
    \E j \in 1..Len(fr_list) :
        /\ fr_list[j].bbox # NoBBox
        /\ _overlap(ar.bbox, fr_list[j].bbox)
        /\ ar.confidence >= fr_list[j].confidence

\* the comparison of line 103 made strict: on equal confidences ar is not dropped
ArDroppedStrict(ar, fr_list) ==
    \E j \in 1..Len(fr_list) :
        /\ fr_list[j].bbox # NoBBox
        /\ _overlap(ar.bbox, fr_list[j].bbox)
        /\ ar.confidence < fr_list[j].confidence

\* lines 98-106: some French token with a box overlaps ar and is at least as confident
ArDropped(ar, fr_list) ==
    \E j \in 1..Len(fr_list) :
        /\ fr_list[j].bbox # NoBBox
        /\ _overlap(ar.bbox, fr_list[j].bbox)
        /\ ar.confidence <= fr_list[j].confidence

\* fr is dropped only for an Arabic token more confident by more than ten
FrDroppedByMargin(fr, kept_ar) ==
    \E j \in 1..Len(kept_ar) :
        /\ kept_ar[j].bbox # NoBBox
        /\ _overlap(kept_ar[j].bbox, fr.bbox)
        /\ fr.confidence + 10 < kept_ar[j].confidence

\* lines 117-125: some kept Arabic token with a box overlaps fr and is more confident
FrDropped(fr, kept_ar) ==
    \E j \in 1..Len(kept_ar) :
        /\ kept_ar[j].bbox # NoBBox
        /\ _overlap(kept_ar[j].bbox, fr.bbox)
        /\ fr.confidence < kept_ar[j].confidence

\* lines 91-108
RECURSIVE KeepAr(_, _, _)
KeepAr(ar_list, fr_list, i) ==
    IF i > Len(ar_list) THEN <<>>
    ELSE (IF ar_list[i].bbox = NoBBox \/ ~ArDropped(ar_list[i], fr_list) THEN <<ar_list[i]>> ELSE <<>>)
         \o KeepAr(ar_list, fr_list, i + 1)

\* lines 110-127
RECURSIVE KeepFr(_, _, _)
KeepFr(fr_list, kept_ar, i) ==
    IF i > Len(fr_list) THEN <<>>
    ELSE (IF fr_list[i].bbox = NoBBox \/ ~FrDropped(fr_list[i], kept_ar) THEN <<fr_list[i]>> ELSE <<>>)
         \o KeepFr(fr_list, kept_ar, i + 1)

\* the second pass made against every Arabic token of the input, kept or not
DedupeAgainstInput(ar_list, fr_list) == <<KeepAr(ar_list, fr_list, 1), KeepFr(fr_list, ar_list, 1)>>

\* lines 89-129
_dedupe_overlaps(ar_list, fr_list) ==
    LET kept == KeepAr(ar_list, fr_list, 1)
    IN  <<kept, KeepFr(fr_list, kept, 1)>>

\* two boxes that overlap, one that only touches them along an edge, and no box;
\* confidences 50, 60 and 80
ResultBoxes == {<<0, 0, 2, 2>>, <<1, 1, 2, 2>>, <<2, 0, 1, 1>>}
ResultConfs == {50, 60, 80}
Results == {Result(b, c) : b \in ResultBoxes, c \in ResultConfs} \cup {Result(NoBBox, 60)}

InitDedupe ==
    /\ hash_seed = 1
    /\ d_pc = "call"
    /\ arabic \in ListsUpTo(Results, MaxPerLang)
    /\ french \in ListsUpTo(Results, MaxPerLang)
    /\ keep_ar = <<>> /\ keep_fr = <<>>
    /\ NormIdle /\ BoxIdle /\ RunIdle /\ LoadIdle /\ FnIdle

DedupeOverlaps ==
    /\ d_pc = "call"
    /\ keep_ar' = _dedupe_overlaps(arabic, french)[1]
    /\ keep_fr' = _dedupe_overlaps(arabic, french)[2]
    /\ d_pc' = "done"
    /\ UNCHANGED <<hash_seed, arabic, french, normVars, boxVars, runVars, loadVars, fnVars>>

NextDedupe == DedupeOverlaps
SpecDedupe == InitDedupe /\ [][NextDedupe]_vars

-----------------------------------------------------------------------------
(* Candidate selection, checked under SpecSelect: every template has one region, so the *)
(* region's tokens are the tokens out.raw holds under the field's language              *)

TheKey == FieldKey(Regions[1].section, Regions[1].name)
TheField == out.fields[TheKey]
TheTokens == out.raw[TheField.lang]
TheCandidates == Candidates(TheTokens)
CandScore(c) == Score(normalize_field(TheKey, c.txt), c.c, c.txt)
ReportedScore == <<IF TheField.valid THEN 1 ELSE 0, TheField.conf, Len(TheField.value)>>

\* C1: when a region has a candidate, the reported (valid, conf, length of value) is the score
\* of one of its candidates and no candidate scores strictly higher
C1_WinnerIsMaximum ==
    (pc = "done" /\ TheCandidates # <<>>) =>
        /\ \E i \in 1..Len(TheCandidates) : CandScore(TheCandidates[i]) = ReportedScore
        /\ \A i \in 1..Len(TheCandidates) : ~ScoreGreater(CandScore(TheCandidates[i]), ReportedScore)

\* C2: when some candidate of the region normalizes to valid, the reported field is valid
C2_ValidityDominates ==
    (pc = "done" /\ \E i \in 1..Len(TheCandidates) : CandScore(TheCandidates[i])[1] = 1) =>
        TheField.valid

\* a valid candidate has won against an invalid candidate of strictly higher confidence
C2_Witness ==
    /\ pc = "done"
    /\ TheField.valid
    /\ \E i \in 1..Len(TheCandidates) :
          /\ CandScore(TheCandidates[i])[1] = 0
          /\ TheCandidates[i].c > TheField.conf

-----------------------------------------------------------------------------
(* The whole run, checked under SpecRun *)

RegionKey(i) == FieldKey(Regions[i].section, Regions[i].name)
DeclaredPairs == {<<Regions[i].section, Regions[i].name>> : i \in 1..Len(Regions)}

\* C4: a run ends with one error and no result, or with a result that holds one field per
\* declared (section, name) region, keyed "section.name"
C4_CompleteOrError ==
    /\ pc = "error" => err # "" /\ out = EmptyOut
    /\ pc = "done" =>
          /\ DOMAIN out.fields = {RegionKey(i) : i \in 1..Len(Regions)}
          /\ Cardinality(DOMAIN out.fields) = Cardinality(DeclaredPairs)

\* the routing the claim states: region.lang first, then the name receipt_no, then the heuristics
C8_ClaimedLangKey(section, name, rel_lang) ==
    IF rel_lang # "" THEN rel_lang
    ELSE IF name = ReceiptNoName THEN "receipt"
    ELSE IF (section = TitleSection /\ name = ArName) \/ (\E i \in 1..Len(name) : IsArabicCh(name[i]))
         THEN "arabic" ELSE "french"

\* C8: every region read so far was routed by region.lang if it has one, else to the receipt
\* profile if its name is receipt_no, else by the heuristics
C8_RoutingPriority ==
    pc \in {"loop", "done"} =>
        \A i \in 1..(idx - 1) :
            out.fields[RegionKey(i)].lang = C8_ClaimedLangKey(Regions[i].section, Regions[i].name, Regions[i].lang)

\* the key run() resolves for region i
ResolvedKey(i) == LangKey(Regions[i].section, Regions[i].name, Regions[i].lang)

\* C9: no region whose resolved key has no engine is ever passed, and every engine
\* invoked is the one registered under the region's resolved key
C9_MissingEngineFatal ==
    /\ pc \in {"loop", "done"} => \A i \in 1..(idx - 1) : ResolvedKey(i) \in engines
    /\ \A j \in 1..Len(calls) : calls[j].engine = ResolvedKey(calls[j].region)

\* C9, with the 'hybrid' fallback of line 101: no region is passed that has no engine under its resolved key nor under
\* 'hybrid'; a run that stops there returns nothing; the engine invoked is the one under the
\* resolved key, and the one under 'hybrid' only when the resolved key has none
C9_MissingEngineFatalUnlessHybrid ==
    /\ pc \in {"loop", "done"} =>
          \A i \in 1..(idx - 1) : ResolvedKey(i) \in engines \/ "hybrid" \in engines
    /\ (pc = "error" /\ err = "RuntimeError") =>
          /\ out = EmptyOut
          /\ ResolvedKey(idx) \notin engines /\ "hybrid" \notin engines
    /\ \A j \in 1..Len(calls) :
          /\ calls[j].engine \in engines
          /\ \/ calls[j].engine = ResolvedKey(calls[j].region)
             \/ calls[j].engine = "hybrid" /\ ResolvedKey(calls[j].region) \notin engines

\* a run has read a region with its own engine and then stopped at a region that has none,
\* although engines under other keys are registered
C9_Witness ==
    /\ pc = "error" /\ err = "RuntimeError"
    /\ calls # <<>>
    /\ "receipt" \in engines
    /\ ResolvedKey(idx) \notin engines

-----------------------------------------------------------------------------
(* The normalizers, checked under SpecNorm *)

\* C5: of the empty text every field key's normalizer returns valid = false, and raises nothing
C5_EmptyIsInvalid ==
    (n_pc = "done" /\ n_text = <<>>) => (n_out # Raised /\ n_out.valid = FALSE)

NormTypes == {"cin", "date", "phone", "receipt_no", "ice", "if", "commune", "name", "text"}
IsStr(v) == DOMAIN v = 1..Len(v) /\ v # NoneStr /\ v # RaiseStr

\* C6: normalize_field returns a record of type, value and valid for every key and text,
\* a missing one included, and never raises
C6_NormalizeTotal ==
    n_pc = "done" =>
        /\ n_out # Raised
        /\ DOMAIN n_out = {"type", "value", "valid"}
        /\ n_out.type \in NormTypes
        /\ n_out.valid \in BOOLEAN
        /\ IsStr(n_out.value)

\* a missing text and a garbled date have been normalized to valid = false
C6_Witness ==
    /\ n_pc = "done"
    /\ n_out.type = "date" /\ ~n_out.valid
    /\ \/ n_text = NoneStr
       \/ DateSearch(Replace(Replace(ar2en_digits(n_text), ".", "/"), "-", "/")) # NoMatch

NumericTypes == {"cin", "date", "phone", "receipt_no", "ice", "if"}

\* C7: for the numeric field types, a text and the same text with its Arabic-indic digits
\* written in ASCII normalize to the same type, value and valid
C7_DigitSystemsAgree ==
    (n_pc = "done" /\ n_text # NoneStr /\ n_out.type \in NumericTypes) =>
        n_out = normalize_field(n_key, ar2en_digits(n_text))

-----------------------------------------------------------------------------
(* The overlap resolver, checked under SpecDedupe *)

\* two boxes intersect: some pixel lies in both
Intersect(a, b) ==
    \E px \in a[1]..(a[1] + a[3] - 1), py \in a[2]..(a[2] + a[4] - 1) :
        /\ b[1] <= px /\ px < b[1] + b[3]
        /\ b[2] <= py /\ py < b[2] + b[4]

OnePair ==
    /\ Len(arabic) = 1 /\ Len(french) = 1
    /\ arabic[1].bbox # NoBBox /\ french[1].bbox # NoBBox
    /\ Intersect(arabic[1].bbox, french[1].bbox)

\* C10: of one Arabic and one French token with intersecting boxes and different
\* confidences, the more confident one is returned and the other one removed
C10_LowerConfidenceDropped ==
    (d_pc = "done" /\ OnePair /\ arabic[1].confidence # french[1].confidence) =>
        IF arabic[1].confidence > french[1].confidence
        THEN keep_ar = arabic /\ keep_fr = <<>>
        ELSE keep_ar = <<>> /\ keep_fr = french

\* the French token was the more confident one, and the Arabic token is gone
C10_Witness ==
    /\ d_pc = "done" /\ OnePair
    /\ arabic[1].confidence < french[1].confidence
    /\ keep_ar = <<>> /\ keep_fr = french

\* the list without the elements at the positions in D, the others in their order
RECURSIVE Without(_, _, _)
Without(list, D, i) ==
    IF i > Len(list) THEN <<>>
    ELSE (IF i \in D THEN <<>> ELSE <<list[i]>>) \o Without(list, D, i + 1)

\* the token has a box that shares a pixel with the box of some token of the other list
IntersectsSome(tok, others) ==
    /\ tok.bbox # NoBBox
    /\ \E j \in 1..Len(others) : others[j].bbox # NoBBox /\ Intersect(tok.bbox, others[j].bbox)

\* kept is list with some positions removed, each of them a token that intersects the others
OnlyIntersectingRemoved(list, kept, others) ==
    \E D \in SUBSET (1..Len(list)) :
        /\ kept = Without(list, D, 1)
        /\ \A i \in D : IntersectsSome(list[i], others)

\* C11: each returned list is its input list with positions removed, order and elements
\* unchanged, and every removed token's box intersects a box of the other language
C11_NonOverlappingKept ==
    d_pc = "done" =>
        /\ OnlyIntersectingRemoved(arabic, keep_ar, french)
        /\ OnlyIntersectingRemoved(french, keep_fr, arabic)

\* an Arabic token that only touches a more confident French box along an edge was kept,
\* while another Arabic token, under that French box, was removed
C11_Witness ==
    /\ d_pc = "done"
    /\ Len(arabic) = 2 /\ Len(french) = 1
    /\ arabic[1].bbox = <<0, 0, 2, 2>> /\ arabic[2].bbox = <<2, 0, 1, 1>>
    /\ french[1].bbox = <<0, 0, 2, 2>>
    /\ arabic[1].confidence < french[1].confidence
    /\ arabic[2].confidence < french[1].confidence
    /\ keep_ar = <<arabic[2]>> /\ keep_fr = french

\* C12: of one Arabic and one French token with intersecting boxes and equal confidences,
\* the Arabic token is returned and the French token removed
C12_ArabicWinsTies ==
    (d_pc = "done" /\ OnePair /\ arabic[1].confidence = french[1].confidence) =>
        (keep_ar = arabic /\ keep_fr = <<>>)

\* arabic[i] and french[j] have intersecting boxes and the same confidence
Tie(i, j) ==
    /\ arabic[i].bbox # NoBBox /\ french[j].bbox # NoBBox
    /\ Intersect(arabic[i].bbox, french[j].bbox)
    /\ arabic[i].confidence = french[j].confidence

\* C12, with the comparisons of lines 103 and 122: an Arabic token tied with a French token
\* is removed, and the French token is returned unless a returned Arabic token of strictly
\* higher confidence intersects it; of one tied pair alone the French token is the survivor
C12_FrenchWinsTies ==
    d_pc = "done" =>
        /\ \A i \in 1..Len(arabic), j \in 1..Len(french) :
              Tie(i, j) =>
                  /\ arabic[i] \notin Range(keep_ar)
                  /\ \/ french[j] \in Range(keep_fr)
                     \/ \E k \in 1..Len(keep_ar) :
                            /\ keep_ar[k].bbox # NoBBox
                            /\ Intersect(keep_ar[k].bbox, french[j].bbox)
                            /\ keep_ar[k].confidence > french[j].confidence
        /\ (OnePair /\ arabic[1].confidence = french[1].confidence) =>
              (keep_ar = <<>> /\ keep_fr = french)

\* one tied pair has been resolved: the Arabic token is gone, the French token is returned
C12_Witness ==
    /\ d_pc = "done" /\ OnePair
    /\ arabic[1].confidence = french[1].confidence
    /\ keep_ar = <<>> /\ keep_fr = french

-----------------------------------------------------------------------------
(* normalize_date_ma on texts built around one day, month and year *)

\* days: below, at and above the limits, and one in Arabic-indic digits
DateDays ==
    {<<"0">>,
     <<"1">>,
     <<"1", "2">>,
     <<"3", "1">>,
     <<"3", "2">>,
     <<"ar1", "ar2">>}
\* months
DateMonths ==
    {<<"1">>,
     <<"0", "8">>,
     <<"1", "2">>,
     <<"1", "3">>}
\* years of one to five digits, around the pivot 50 and around the limits 1900 and 2100,
\* and a year below 100 written with three digits
DateYears ==
    {<<"5">>,
     <<"0", "0">>,
     <<"4", "9">>,
     <<"5", "0">>,
     <<"9", "9">>,
     <<"0", "4", "9">>,
     <<"2", "0", "2">>,
     <<"1", "8", "9", "9">>,
     <<"1", "9", "0", "0">>,
     <<"2", "0", "2", "5">>,
     <<"2", "1", "0", "0">>,
     <<"2", "1", "0", "1">>,
     <<"2", "0", "2", "5", "5">>,
     <<"ar2", "ar0", "ar2", "ar5">>}
\* the separators, and a space, which is none
DateSeps ==
    {<<"/">>,
     <<"-">>,
     <<".">>,
     <<" ">>}
\* what precedes the date: nothing, a word, a digit, a date-like group out of range
DatePrefixes ==
    {<<>>,
     <<" ", "x", " ">>,
     <<"1">>,
     <<"4", "5", "/", "6", "7", "/", "8", "9", " ">>}
\* what follows the date: nothing, or a second date
DateSuffixes ==
    {<<>>,
     <<" ", "1", "/", "1", "/", "2", "5">>}

DateKey == <<"b", "o", "d", "y", ".", "d", "a", "t", "e", ".", "f", "r">>
DateTexts ==
    {p \o d \o s1 \o m \o s2 \o y \o x :
        p \in DatePrefixes, d \in DateDays, s1 \in DateSeps, m \in DateMonths,
        s2 \in DateSeps, y \in DateYears, x \in DateSuffixes}

InitDate ==
    /\ hash_seed = 1
    /\ n_key = DateKey
    /\ n_pc = "call"
    /\ n_text \in DateTexts
    /\ n_out = NoOut
    /\ BoxIdle /\ RunIdle /\ DedupeIdle /\ LoadIdle /\ FnIdle

SpecDate == InitDate /\ [][NextNorm]_vars

-----------------------------------------------------------------------------
(* normalize_phone_ma on texts built around one subscriber number *)

\* what precedes the number
PhonePrefixes ==
    {<<>>,
     <<"+">>,
     <<"0", "0">>,
     <<"T", "e", "l", ":", " ">>}
\* the country code, or none
PhoneCodes ==
    {<<>>,
     <<"2", "1", "2">>,
     <<"2", "1", "2", " ">>}
\* the trunk digit, or none
PhoneTrunks ==
    {<<>>,
     <<"0">>,
     <<"(", "0", ")">>}
\* subscriber numbers of eight, nine and ten digits, one that starts like the country code, one that
\* starts with 0, one with separators, one in Arabic-indic digits, one with a tab and two spaces
PhoneBodies ==
    {<<"6", "1", "2", "3", "4", "5", "6", "7", "8">>,
     <<"6", "1", "2", "3", "4", "5", "6", "7">>,
     <<"6", "1", "2", "3", "4", "5", "6", "7", "8", "9">>,
     <<"2", "1", "2", "3", "4", "5", "6", "7", "8">>,
     <<"0", "1", "2", "3", "4", "5", "6", "7", "8">>,
     <<"6", " ", "1", "2", "-", "3", "4", ".", "5", "6", " ", "7", "8">>,
     <<"ar6", "ar1", "ar2", "ar3", "ar4", "ar5", "ar6", "ar7", "ar8">>,
     <<"6", "\t", "1", "2", " ", " ", "3", "4", "5", "6", "7", "8">>}
\* what follows the number
PhoneSuffixes ==
    {<<>>,
     <<" ", "x">>,
     <<"9">>}

PhoneKey == <<"b", "o", "d", "y", ".", "t", "e", "l">>
PhoneTexts ==
    {p \o c \o z \o b \o x :
        p \in PhonePrefixes, c \in PhoneCodes, z \in PhoneTrunks, b \in PhoneBodies, x \in PhoneSuffixes}

InitPhone ==
    /\ hash_seed = 1
    /\ n_key = PhoneKey
    /\ n_pc = "call"
    /\ n_text \in PhoneTexts
    /\ n_out = NoOut
    /\ BoxIdle /\ RunIdle /\ DedupeIdle /\ LoadIdle /\ FnIdle

SpecPhone == InitPhone /\ [][NextNorm]_vars

-----------------------------------------------------------------------------
(* Loading a template file: src/templates/template_extractor.py, TemplateExtractor.__init__, *)
(* and src/ocr/template.py, TemplateExtractor._load_templates, each followed by a run       *)

\* a file's one section object holds at most MaxMembers members
MaxMembers == 3

CoordKeys == {"x", "y", "w", "h"}
\* a region with all four coordinates, without x, without h, with x alone
CoordSets == {CoordKeys, CoordKeys \ {"x"}, CoordKeys \ {"h"}, {"x"}}
MemberNames == {"cin", "date"}
\* a member "name": {...} of the section object, as written in the file; a name may be repeated
Members == [name : MemberNames, keys : CoordSets]
Loaders == {"templates.template_extractor", "ocr.template"}

\* json.load of an object: each name once, where it occurs first, with the value written last
RECURSIVE JsonLoad(_, _, _)
JsonLoad(file, i, acc) ==
    IF i > Len(file) THEN acc
    ELSE IF \E j \in 1..Len(acc) : acc[j].name = file[i].name
         THEN JsonLoad(file, i + 1,
                       [j \in 1..Len(acc) |-> IF acc[j].name = file[i].name THEN file[i] ELSE acc[j]])
         ELSE JsonLoad(file, i + 1, Append(acc, file[i]))

InitLoad ==
    /\ hash_seed = 1
    /\ l_pc = "new"
    /\ l_loader \in Loaders
    /\ l_file \in ListsUpTo(Members, MaxMembers)
    /\ l_templates = <<>>
    /\ l_idx = 0
    /\ NormIdle /\ BoxIdle /\ RunIdle /\ DedupeIdle /\ FnIdle

\* template_extractor.py lines 54-57: the file is parsed and kept as it is
LoadExtractor ==
    /\ l_pc = "new" /\ l_loader = "templates.template_extractor"
    /\ l_templates' = JsonLoad(l_file, 1, <<>>)
    /\ l_pc' = "loaded"
    /\ UNCHANGED <<hash_seed, l_loader, l_file, l_idx, normVars, boxVars, runVars, dedupeVars, fnVars>>

\* ocr/template.py lines 43-79: the file is parsed and a TemplateRegion built of each region;
\* region_coords['x'] of a region without x raises KeyError, re-raised as RuntimeError
LoadOcrTemplate ==
    /\ l_pc = "new" /\ l_loader = "ocr.template"
    /\ LET regions == JsonLoad(l_file, 1, <<>>)
       IN  IF \E j \in 1..Len(regions) : regions[j].keys # CoordKeys
           THEN l_pc' = "failed" /\ UNCHANGED l_templates
           ELSE l_pc' = "loaded" /\ l_templates' = regions
    /\ UNCHANGED <<hash_seed, l_loader, l_file, l_idx, normVars, boxVars, runVars, dedupeVars, fnVars>>

\* a run on the loaded template starts: run() lines 78-85, extract_regions lines 83-90
StartRun ==
    /\ l_pc = "loaded"
    /\ l_pc' = "running" /\ l_idx' = 1
    /\ UNCHANGED <<hash_seed, l_loader, l_file, l_templates, normVars, boxVars, runVars, dedupeVars, fnVars>>

\* template_extractor.py lines 86-87 and 59-61: _abs_box reads rel['x'], rel['y'], rel['w'], rel['h']
ExtractorRegion ==
    /\ l_pc = "running" /\ l_loader = "templates.template_extractor" /\ l_idx <= Len(l_templates)
    /\ IF l_templates[l_idx].keys # CoordKeys
       THEN l_pc' = "KeyError" /\ UNCHANGED l_idx
       ELSE l_idx' = l_idx + 1 /\ UNCHANGED l_pc
    /\ UNCHANGED <<hash_seed, l_loader, l_file, l_templates, normVars, boxVars, runVars, dedupeVars, fnVars>>

\* ocr/template.py lines 92-106: the coordinates are attributes of the TemplateRegion
OcrTemplateRegion ==
    /\ l_pc = "running" /\ l_loader = "ocr.template" /\ l_idx <= Len(l_templates)
    /\ l_idx' = l_idx + 1
    /\ UNCHANGED <<hash_seed, l_pc, l_loader, l_file, l_templates, normVars, boxVars, runVars, dedupeVars, fnVars>>

EndRun ==
    /\ l_pc = "running" /\ l_idx > Len(l_templates)
    /\ l_pc' = "returned"
    /\ UNCHANGED <<hash_seed, l_loader, l_file, l_templates, l_idx, normVars, boxVars, runVars, dedupeVars, fnVars>>

NextLoad == LoadExtractor \/ LoadOcrTemplate \/ StartRun \/ ExtractorRegion \/ OcrTemplateRegion \/ EndRun
SpecLoad == InitLoad /\ [][NextLoad]_vars

-----------------------------------------------------------------------------
(* src/ocr/preproc_pil.py: median_digit_confidence *)

\* a list holds at most MaxMedianTokens tokens
MaxMedianTokens == 3

\* a token without a confidence: no attribute, no key, or None
NoConf == -1
\* a token is an object with attributes or a dict; confidences are counted in thousandths
MedianToken(kind, text, confidence) == [kind |-> kind, text |-> text, confidence |-> confidence]
MedianTokens ==
    {MedianToken("object", t, c) : t \in {<<"A", "1">>, <<"C">>, <<"9">>}, c \in {200, 400, 700, 900}}
        \cup {MedianToken("object", <<"B", "2">>, 700),
              MedianToken("object", <<"9">>, NoConf),
              MedianToken("object", NoneStr, 900),
              MedianToken("object", <<"ar2">>, 200),
              MedianToken("dict", <<"9">>, 400),
              MedianToken("dict", <<"9">>, NoConf),
              MedianToken("dict", <<"C">>, 900),
              MedianToken("dict", <<>>, 700)}

\* line 54: any(ch.isdigit() for ch in txt)
HasDigit(txt) == \E i \in 1..Len(txt) : IsDigit(txt[i])

\* lines 48-61: the confidences collected, in the order of the tokens. Of a token without a
\* confidence, a dict gives the default 0.0 (line 57); an object gives None, float(None)
\* raises and the token is passed over (lines 58-61)
RECURSIVE MedianVals(_, _)
MedianVals(tokens, i) ==
    IF i > Len(tokens) THEN <<>>
    ELSE LET t == tokens[i]
             txt == OrEmpty(t.text)
             conf == IF t.confidence = NoConf /\ t.kind = "dict" THEN 0 ELSE t.confidence
         IN  (IF HasDigit(txt) /\ conf # NoConf THEN <<conf>> ELSE <<>>) \o MedianVals(tokens, i + 1)

\* the median with the upper of the two middle values taken of an even number
UpperMedian(vals) == Sorted(vals)[Len(vals) \div 2 + 1]

\* statistics.median: the middle of the sorted values, of an even number the mean of the two
\* in the middle (the values are even numbers of thousandths: the mean is exact)
StatisticsMedian(vals) ==
    LET data == Sorted(vals)
        n == Len(data)
    IN  IF n % 2 = 1 THEN data[n \div 2 + 1] ELSE (data[n \div 2] + data[n \div 2 + 1]) \div 2

median_digit_confidence(tokens) ==
    LET vals == MedianVals(tokens, 1)
    IN  IF vals = <<>> THEN 0 ELSE StatisticsMedian(vals)

InitMedian ==
    /\ hash_seed = 1
    /\ f_pc = "call" /\ f_name = "median_digit_confidence"
    /\ f_in \in ListsUpTo(MedianTokens, MaxMedianTokens)
    /\ f_out = 0
    /\ NormIdle /\ BoxIdle /\ RunIdle /\ DedupeIdle /\ LoadIdle

MedianDigitConfidence ==
    /\ f_pc = "call" /\ f_name = "median_digit_confidence"
    /\ f_out' = median_digit_confidence(f_in)
    /\ f_pc' = "done"
    /\ UNCHANGED <<hash_seed, f_name, f_in, normVars, boxVars, runVars, dedupeVars, loadVars>>

NextMedian == MedianDigitConfidence
SpecMedian == InitMedian /\ [][NextMedian]_vars

-----------------------------------------------------------------------------
(* src/ocr/hybrid.py: HybridOCR.analyze_layout *)

\* pages are MaxPage pixels high and wide, and cv2.findContours gives at most MaxContours contours
MaxPage == 2
MaxContours == 2
\* a grey page of black and white pixels: gray[row][column]
Pixels == {0, 255}
Pages == [1..MaxPage -> [1..MaxPage -> Pixels]]
\* cv2.boundingRect: the boxes (x, y, w, h) inside the page
PageBoxes ==
    {<<x, y, w, h>> : x \in 0..(MaxPage - 1), y \in 0..(MaxPage - 1), w \in 1..MaxPage, h \in 1..MaxPage}
\* the boxes that do not reach over the right or bottom edge
ContourBoxes == {b \in PageBoxes : b[1] + b[3] <= MaxPage /\ b[2] + b[4] <= MaxPage}

RECURSIVE SumSeq(_)
SumSeq(xs) == IF xs = <<>> THEN 0 ELSE Head(xs) + SumSeq(Tail(xs))
\* np.sum(roi, axis=0) of roi = gray[y:y+h, x:x+w]: the sums of the columns
VerticalProjection(gray, b) ==
    [c \in 1..b[3] |-> SumSeq([r \in 1..b[4] |-> gray[b[2] + r][b[1] + c]])]
\* np.sum(roi, axis=1): the sums of the rows
HorizontalProjection(gray, b) ==
    [r \in 1..b[4] |-> SumSeq([c \in 1..b[3] |-> gray[b[2] + r][b[1] + c]])]
\* Len(xs)^2 times the variance of xs
VarNum(xs) == Len(xs) * SumSeq([i \in 1..Len(xs) |-> xs[i] * xs[i]]) - SumSeq(xs) * SumSeq(xs)
\* np.std(xs) > np.std(ys), as the comparison of the variances
StdGreater(xs, ys) == VarNum(xs) * Len(ys) * Len(ys) > VarNum(ys) * Len(xs) * Len(xs)

\* a classification that takes every contour for Arabic
MoreVerticalAlways(gray, b) == TRUE
\* line 76
MoreVertical(gray, b) == StdGreater(VerticalProjection(gray, b), HorizontalProjection(gray, b))

\* lines 68-79: regions after the contours contours[i..]
RECURSIVE LayoutLoop(_, _, _, _)
LayoutLoop(gray, contours, i, regions) ==
    IF i > Len(contours) THEN regions
    ELSE LayoutLoop(gray, contours, i + 1,
                    IF MoreVertical(gray, contours[i])
                    THEN [regions EXCEPT !.arabic = Append(@, contours[i])]
                    ELSE [regions EXCEPT !.french = Append(@, contours[i])])

\* lines 54-81
analyze_layout(gray, contours) == LayoutLoop(gray, contours, 1, [arabic |-> <<>>, french |-> <<>>])

\* a page as cv2 sees it: the grey image and the contours cv2.findContours gives for it
InitLayout ==
    /\ hash_seed = 1
    /\ f_pc = "call" /\ f_name = "analyze_layout"
    /\ f_in \in [gray : Pages, contours : ListsUpTo(ContourBoxes, MaxContours)]
    /\ f_out = 0
    /\ NormIdle /\ BoxIdle /\ RunIdle /\ DedupeIdle /\ LoadIdle

AnalyzeLayout ==
    /\ f_pc = "call" /\ f_name = "analyze_layout"
    /\ f_out' = analyze_layout(f_in.gray, f_in.contours)
    /\ f_pc' = "done"
    /\ UNCHANGED <<hash_seed, f_name, f_in, normVars, boxVars, runVars, dedupeVars, loadVars>>

NextLayout == AnalyzeLayout
SpecLayout == InitLayout /\ [][NextLayout]_vars

-----------------------------------------------------------------------------
(* src/ocr/hybrid.py: HybridOCR._filter_by_script and HybridOCR.process_document *)

\* each engine returns at most MaxEngineTokens tokens
MaxEngineTokens == 1

\* ch.lower(): a str, which for U+0130 has two characters; U+212A, the Kelvin sign, gives 'k'
StrLower(c) ==
    IF c = "u212A" THEN <<"k">>
    ELSE IF c = "u0130" THEN <<"i", "u0307">>
    ELSE <<LowerCh(c)>>
\* "a" <= x <= "z" in the order of str: x starts with a letter a..y, or is "z"
BetweenAZ(x) == \E i \in 1..26 : LowerLetters[i] = x[1] /\ (i < 26 \/ Len(x) = 1)

\* lines 28-30
_is_arabic_text(s) == \E i \in 1..Len(OrEmpty(s)) : IsArabicCh(OrEmpty(s)[i])
\* lines 32-35
_is_latin_text(s) == \E i \in 1..Len(OrEmpty(s)) : BetweenAZ(StrLower(OrEmpty(s)[i]))

\* what an engine returns: a list of tokens, or None
Returns(tokens) == [none |-> FALSE, tokens |-> tokens]
NoResults == [none |-> TRUE, tokens |-> <<>>]
\* lines 37-45; `results or []` gives [] for None
_filter_by_script(results, lang) ==
    SelectSeq(IF results.none THEN <<>> ELSE results.tokens,
              LAMBDA r : IF lang = "arabic" THEN _is_arabic_text(r.text)
                         ELSE lang = "french" /\ _is_latin_text(r.text))

\* lines 138-149, for what the two engines returned
process_document(ar_results, fr_results) ==
    LET kept == _dedupe_overlaps(_filter_by_script(ar_results, "arabic"),
                                 _filter_by_script(fr_results, "french"))
    IN  [arabic |-> kept[1], french |-> kept[2]]

\* texts: Arabic, Latin in lower and in upper case, a date, both scripts, an accented letter,
\* the Kelvin sign, the dotted capital I, no text and None
HybridTexts ==
    {<<"u0633", "u0644">>,
     <<"a", "b">>,
     <<"Z">>,
     <<"1", "2", "/", "0", "8">>,
     <<"u0633", " ", "a">>,
     <<"e^">>,
     <<"u212A">>,
     <<"u0130">>,
     <<>>,
     NoneStr}
HybridTokens ==
    {Token(t, c, <<0, 0, 2, 2>>) : t \in HybridTexts, c \in {50, 80}}
        \cup {Token(t, 50, NoBBox) : t \in HybridTexts}
EngineReturns == {Returns(l) : l \in ListsUpTo(HybridTokens, MaxEngineTokens)} \cup {NoResults}

\* one call of process_document: what each engine returns for the image, or that one raises
InitHybrid ==
    /\ hash_seed = 1
    /\ f_pc = "call" /\ f_name = "process_document"
    /\ f_in \in [arabic : EngineReturns, french : EngineReturns, raises : BOOLEAN]
    /\ f_out = 0
    /\ NormIdle /\ BoxIdle /\ RunIdle /\ DedupeIdle /\ LoadIdle

\* lines 131-155: the exception of an engine is logged and raised again
ProcessDocument ==
    /\ f_pc = "call" /\ f_name = "process_document"
    /\ IF f_in.raises
       THEN f_pc' = "error" /\ UNCHANGED f_out
       ELSE f_pc' = "done" /\ f_out' = process_document(f_in.arabic, f_in.french)
    /\ UNCHANGED <<hash_seed, f_name, f_in, normVars, boxVars, runVars, dedupeVars, loadVars>>

NextHybrid == ProcessDocument
SpecHybrid == InitHybrid /\ [][NextHybrid]_vars

-----------------------------------------------------------------------------
(* The receipt scenario, checked under SpecReceipt *)

TitleFrKey == <<"t", "i", "t", "l", "e", ".", "f", "r">>
ReceiptNoKey == <<"b", "o", "d", "y", ".", "r", "e", "c", "e", "i", "p", "t", "_", "n", "o">>

\* what the scenario expects of a returned result
ReceiptFieldsAsExpected ==
    /\ out.fields[TitleFrKey].valid
    /\ out.fields[DateKey].valid
    /\ out.fields[DateKey].norm = <<"2", "0", "2", "5", "-", "0", "8", "-", "1", "2">>
    /\ out.fields[ReceiptNoKey].valid
    /\ out.fields[ReceiptNoKey].norm = <<"2", "0", "2", "4", "/", "1", "2", "3", "4">>
    /\ out.fields[ReceiptNoKey].conf >= 400

\* C13: with engines under 'french' and 'arabic' only and a backend that reads the print with
\* confidence >= 50, the run on assoc_receipt does not fail, and its result has title.fr valid,
\* body.date.fr valid with norm 2025-08-12, body.receipt_no valid with norm 2024/1234, conf >= 40
C13_ReceiptScenario ==
    (template_key = "assoc_receipt" /\ engines = {"french", "arabic"}) =>
        /\ pc # "error"
        /\ pc = "done" => ReceiptFieldsAsExpected

-----------------------------------------------------------------------------
(* Dates, checked under SpecDate *)

IsDateSep(c) == c \in {"/", "-", "."}
AllDigits(t, from, n) == \A k \in from..(from + n - 1) : IsDigit(t[k])
NoDigitAt(t, k) == k < 1 \/ k > Len(t) \/ ~IsDigit(t[k])

\* the places <<i, n1, n2, n3>> where t has n1 digits, a separator, n2 digits, a separator
\* and n3 digits, a day and month of one or two digits and a year of two to four
DatePlaces(t) ==
    {q \in (1..Len(t)) \X (1..2) \X (1..2) \X (2..4) :
        /\ q[1] + q[2] + q[3] + q[4] + 1 <= Len(t)
        /\ AllDigits(t, q[1], q[2])
        /\ IsDateSep(t[q[1] + q[2]])
        /\ AllDigits(t, q[1] + q[2] + 1, q[3])
        /\ IsDateSep(t[q[1] + q[2] + q[3] + 1])
        /\ AllDigits(t, q[1] + q[2] + q[3] + 2, q[4])}
\* the place holds whole numbers: no digit precedes the day or follows the year
WholeNumbers(t, q) == NoDigitAt(t, q[1] - 1) /\ NoDigitAt(t, q[1] + q[2] + q[3] + q[4] + 2)

DayAt(t, q) == ParseInt(SubSeq(t, q[1], q[1] + q[2] - 1))
MonthAt(t, q) == ParseInt(SubSeq(t, q[1] + q[2] + 1, q[1] + q[2] + q[3]))
YearAt(t, q) == ParseInt(SubSeq(t, q[1] + q[2] + q[3] + 2, q[1] + q[2] + q[3] + q[4] + 1))
\* years below 100 are 19yy from 50 on and 20yy below
FullYear(y) == IF y >= 100 THEN y ELSE IF y >= 50 THEN 1900 + y ELSE 2000 + y
InDateRange(d, mo, y) == 1 <= d /\ d <= 31 /\ 1 <= mo /\ mo <= 12 /\ 1900 <= y /\ y <= 2100

\* the in-range dates <<d, mo, y>> the text holds as whole numbers D sep M sep Y, the year
\* written with two or four digits
WholeDatesInRange(text) ==
    LET t == ar2en_digits(text)
    IN  {<<DayAt(t, q), MonthAt(t, q), FullYear(YearAt(t, q))>> :
            q \in {q \in DatePlaces(t) :
                     /\ WholeNumbers(t, q) /\ q[4] # 3
                     /\ InDateRange(DayAt(t, q), MonthAt(t, q), FullYear(YearAt(t, q)))}}
\* the in-range dates the text holds anywhere, be it inside longer runs of digits
DatesInRange(text) ==
    LET t == ar2en_digits(text)
    IN  {<<DayAt(t, q), MonthAt(t, q), FullYear(YearAt(t, q))>> :
            q \in {q \in DatePlaces(t) :
                     InDateRange(DayAt(t, q), MonthAt(t, q), FullYear(YearAt(t, q)))}}
IsoDate(o) == FormatInt(o[3], 4) \o <<"-">> \o FormatInt(o[2], 2) \o <<"-">> \o FormatInt(o[1], 2)

\* C14: a text that contains a day, month and year written D sep M sep Y and in range
\* normalizes to a valid date; a text that normalizes to a valid date contains such a day,
\* month and year, and the value is that date as YYYY-MM-DD
C14_DateValidIffWritten ==
    n_pc = "done" =>
        /\ WholeDatesInRange(n_text) # {} => n_out.valid
        /\ n_out.valid => \E o \in DatesInRange(n_text) : n_out.value = IsoDate(o)

-----------------------------------------------------------------------------
(* Phones, checked under SpecPhone *)

NotSpace(c) == ~IsSpace(c)
\* v is text cleaned of its surplus white space: the same characters, single spaces between them
CleanedText(v, text) ==
    /\ SelectSeq(v, NotSpace) = SelectSeq(text, NotSpace)
    /\ \A i \in 1..Len(v) : IsSpace(v[i]) => (v[i] = " " /\ 1 < i /\ i < Len(v) /\ ~IsSpace(v[i + 1]))
    /\ \A i \in 1..(Len(text) - 1) :
          (~IsSpace(text[i]) /\ IsSpace(text[i + 1]) /\ \E k \in (i + 2)..Len(text) : ~IsSpace(text[k]))
              => \E j \in 1..(Len(v) - 1) :
                    /\ v[j] = text[i] /\ v[j + 1] = " "
                    /\ Len(SelectSeq(SubSeq(v, 1, j), NotSpace)) = Len(SelectSeq(SubSeq(text, 1, i), NotSpace))

\* the digits of the text, without a leading 212 and then without a leading 0
PhoneDigitsLeft(text) ==
    LET ds == SelectSeq(ar2en_digits(text), IsDigit)
        a == IF Len(ds) >= 3 /\ SubSeq(ds, 1, 3) = <<"2", "1", "2">> THEN SubSeq(ds, 4, Len(ds)) ELSE ds
    IN  IF a # <<>> /\ Head(a) = "0" THEN Tail(a) ELSE a

\* C15: a text normalizes to a valid phone exactly when nine digits are left of its digits
\* without a leading 212 and a leading 0; the value is then +212 and these nine digits, and
\* else the text cleaned of surplus white space
C15_PhoneNormalization ==
    n_pc = "done" =>
        /\ n_out.type = "phone"
        /\ n_out.valid <=> Len(PhoneDigitsLeft(n_text)) = 9
        /\ n_out.valid => n_out.value = <<"+", "2", "1", "2">> \o PhoneDigitsLeft(n_text)
        /\ ~n_out.valid => CleanedText(n_out.value, n_text)

\* a number written with country code, trunk digit and separators has been normalized
C15_Witness ==
    /\ n_pc = "done" /\ n_out.valid
    /\ Len(SelectSeq(ar2en_digits(n_text), IsDigit)) = 13
    /\ \E i \in 1..Len(n_text) : n_text[i] = "-"

-----------------------------------------------------------------------------
(* Loading, checked under SpecLoad *)

\* every region of the file has x, y, w and h, and no two regions have the same name
WellFormedFile ==
    /\ \A i \in 1..Len(l_file) : l_file[i].keys = CoordKeys
    /\ \A i, j \in 1..Len(l_file) : l_file[i].name = l_file[j].name => i = j

\* C16: an extractor is constructed, and a run started, only of a file in which every region
\* has x, y, w, h and no two regions share their section and name
C16_BadTemplateRejected ==
    l_pc \in {"loaded", "running", "KeyError", "returned"} => WellFormedFile

-----------------------------------------------------------------------------
(* The median of the digit-bearing tokens, checked under SpecMedian *)

\* the positions of the tokens whose text holds a digit
DigitPositions == {i \in 1..Len(f_in) : f_in[i].text # NoneStr /\ \E k \in 1..Len(f_in[i].text) : IsDigit(f_in[i].text[k])}
\* x is the j-th smallest of the confidences at the positions P
IsNthSmallest(x, j, P) ==
    /\ \E i \in P : f_in[i].confidence = x
    /\ Cardinality({i \in P : f_in[i].confidence < x}) < j
    /\ j <= Cardinality({i \in P : f_in[i].confidence <= x})
\* m is the median of the confidences at the positions P
IsMedianOf(m, P) ==
    LET n == Cardinality(P)
    IN  IF n % 2 = 1
        THEN IsNthSmallest(m, n \div 2 + 1, P)
        ELSE \E i, j \in P :
                /\ IsNthSmallest(f_in[i].confidence, n \div 2, P)
                /\ IsNthSmallest(f_in[j].confidence, n \div 2 + 1, P)
                /\ 2 * m = f_in[i].confidence + f_in[j].confidence

\* C17: of tokens, objects or dicts, whose digit-bearing ones all have a confidence, the result
\* is the median of the confidences of the digit-bearing tokens, and 0 when there is none
C17_MedianOfDigitTokens ==
    (f_pc = "done" /\ f_name = "median_digit_confidence"
        /\ \A i \in DigitPositions : f_in[i].confidence # NoConf) =>
        IF DigitPositions = {} THEN f_out = 0 ELSE IsMedianOf(f_out, DigitPositions)

\* two digit-bearing tokens, an object and a dict, of different confidences and a token without
\* a digit of a higher one: the result is the mean of the two
C17_Witness ==
    /\ f_pc = "done" /\ f_name = "median_digit_confidence"
    /\ Len(f_in) = 3 /\ Cardinality(DigitPositions) = 2
    /\ \E i, j \in DigitPositions, k \in 1..Len(f_in) \ DigitPositions :
          /\ f_in[i].kind = "object" /\ f_in[j].kind = "dict"
          /\ f_in[i].confidence > f_in[j].confidence /\ f_in[j].confidence # NoConf
          /\ f_in[k].confidence > f_in[i].confidence
          /\ 2 * f_out = f_in[i].confidence + f_in[j].confidence

-----------------------------------------------------------------------------
(* The confidence of a region's candidates and its best token, checked under SpecSelect *)

\* the positions of the region's tokens whose text holds a digit, '/' or '-'
DigitishPositions ==
    {i \in 1..Len(TheTokens) :
        \E k \in 1..Len(TheTokens[i].text) : IsDigit(TheTokens[i].text[k]) \/ TheTokens[i].text[k] \in {"/", "-"}}
\* x is the j-th smallest of the confidences of the tokens at the positions P
NthSmallestConf(x, j, P) ==
    /\ \E i \in P : TheTokens[i].confidence = x
    /\ Cardinality({i \in P : TheTokens[i].confidence < x}) < j
    /\ j <= Cardinality({i \in P : TheTokens[i].confidence <= x})
\* m2 is twice the median of the confidences at the positions P: of an even number the sum
\* of the two middle values
IsTwiceMedianConf(m2, P) ==
    LET n == Cardinality(P)
        lower == IF n % 2 = 1 THEN n \div 2 + 1 ELSE n \div 2
    IN  \E i, j \in P :
            /\ NthSmallestConf(TheTokens[i].confidence, lower, P)
            /\ NthSmallestConf(TheTokens[j].confidence, n \div 2 + 1, P)
            /\ m2 = TheTokens[i].confidence + TheTokens[j].confidence
\* confidence times area of the box, 1 for a token without a box
ConfTimesArea(t) == t.confidence * (IF t.bbox = NoBBox THEN 1 ELSE t.bbox[3] * t.bbox[4])
\* the tokens of the region with the greatest confidence times area
BestTokens ==
    {i \in 1..Len(TheTokens) :
        \A j \in 1..Len(TheTokens) : ConfTimesArea(TheTokens[j]) <= ConfTimesArea(TheTokens[i])}
\* the confidence a candidate was given, without the bias of the digits candidate
GivenConf(c) == IF c.kind = "digits" THEN c.c - DigitsBias ELSE c.c

\* C18: the confidence given to a region's candidates is the median of the confidences of its
\* digit-ish tokens, the mean of the two middle ones of an even number, and the confidence of
\* the best token when no token is digit-ish
C18_ConfidenceIsMedian ==
    pc = "done" =>
        \A k \in 1..Len(TheCandidates) :
            IF DigitishPositions # {}
            THEN IsTwiceMedianConf(2 * GivenConf(TheCandidates[k]), DigitishPositions)
            ELSE \E i \in BestTokens : GivenConf(TheCandidates[k]) = TheTokens[i].confidence

-----------------------------------------------------------------------------
(* A region without text, checked under SpecRun *)

\* the region of the current pass of the loop, its field key and its language key
ThisRegion == Regions[idx]
ThisKey == FieldKey(ThisRegion.section, ThisRegion.name)
ThisLang == LangKey(ThisRegion.section, ThisRegion.name, ThisRegion.lang)
\* the number of raw tokens kept under a language key
RawLen(o, lang) == IF lang \in DOMAIN o.raw THEN Len(o.raw[lang]) ELSE 0
\* none of the tokens has a text
NoText(tokens) == \A i \in 1..Len(tokens) : tokens[i].text = <<>>
\* this step is a pass of the loop whose engine returned no token with a text
PassWithoutText ==
    /\ pc = "loop" /\ idx \in 1..Len(Regions) /\ idx' = idx + 1
    /\ \A i \in (RawLen(out, ThisLang) + 1)..RawLen(out', ThisLang) : out'.raw[ThisLang][i].text = <<>>
\* a field without value, invalid and of confidence 0
IsPlaceholder(f) == f.value = <<>> /\ f.valid = FALSE /\ f.conf = 0

\* C19: when the engine returns no tokens or only tokens without text for a region, the run
\* does not fail; that field is reported with value '', invalid and with confidence 0, and
\* the fields reported before it stay as they were
C19_EmptyPlaceholder ==
    /\ [](pc = "loop" /\ idx \in 1..Len(Regions) =>
             \A results \in EngineResults(idx) :
                 NoText(results) => Select(ThisKey, Candidates(results), 1, NoChoice).norm # Raised)
    /\ [][PassWithoutText =>
             /\ pc' = "loop" /\ err' = ""
             /\ DOMAIN out'.fields = DOMAIN out.fields \cup {ThisKey}
             /\ IsPlaceholder(out'.fields[ThisKey])
             /\ \A k \in DOMAIN out.fields \ {ThisKey} : out'.fields[k] = out.fields[k]]_vars
\* a run has returned a field without text next to a field with a value
C19_Witness ==
    /\ pc = "done"
    /\ \E k, j \in DOMAIN out.fields :
           /\ IsPlaceholder(out.fields[k]) /\ NoText(out.raw[out.fields[k].lang]) /\ out.raw[out.fields[k].lang] # <<>>
           /\ out.fields[j].value # <<>>

-----------------------------------------------------------------------------
(* The best token of a region, checked under SpecSelect *)

\* the text of the best-token candidate, '' when the candidates hold none
BestTokenText ==
    IF \E k \in 1..Len(TheCandidates) : TheCandidates[k].kind = "token"
    THEN (CHOOSE c \in Range(TheCandidates) : c.kind = "token").txt
    ELSE <<>>

\* C20: for every non-empty token list of a region, the text of the best-token candidate is
\* the text of a token whose confidence times area is greatest among the tokens of the list,
\* also when every confidence is 0 or every box is missing
C20_BestTokenIsMaximal ==
    pc = "done" /\ TheTokens # <<>> =>
        \E i \in BestTokens : BestTokenText = TheTokens[i].text

-----------------------------------------------------------------------------
(* The invocations of the engine, checked under SpecRun *)

\* the number of invocations of the engine made for region i
CallsFor(i) == Cardinality({j \in 1..Len(calls) : calls[j].region = i})

\* C21: in every run the engine is invoked at most once per declared region, also when the
\* invocation raises an error of any kind, a TypeError of the engine included
C21_NoRetry ==
    template_key \in TemplateIds => \A i \in 1..Len(Regions) : CallsFor(i) <= 1

\* C22: in every run over a template with two or more regions, no region's field is selected
\* before the engine has been invoked, and has returned, for every declared region
C22_JoinBarrier ==
    template_key \in TemplateIds /\ Len(Regions) >= 2 /\ pc \in {"loop", "done"} =>
        (DOMAIN out.fields # {} => \A i \in 1..Len(Regions) : CallsFor(i) >= 1)

-----------------------------------------------------------------------------
(* Rounding of the absolute coordinates, checked under SpecBox *)

\* v is an integer nearest to num / RelDen * D, either neighbour of a half
IsNearest(v, num, D) ==
    LET d == RelDen * v - num * D
    IN  2 * (IF d >= 0 THEN d ELSE -d) <= RelDen
\* the integers that can be nearest to a product of the model
NearRange == (-(MaxDim + 2))..(2 * MaxDim + 2)
\* the clamps of lines 62-63 applied to the coordinates x0, y0, w0, h0
Clamped(H, W, x0, y0, w0, h0) ==
    LET x == IF x0 < 0 THEN 0 ELSE IF x0 > W - 1 THEN W - 1 ELSE x0
        y == IF y0 < 0 THEN 0 ELSE IF y0 > H - 1 THEN H - 1 ELSE y0
    IN  <<x, y,
          IF w0 < 1 THEN 1 ELSE IF w0 > W - x THEN W - x ELSE w0,
          IF h0 < 1 THEN 1 ELSE IF h0 > H - y THEN H - y ELSE h0>>

\* C23: the box _abs_box returns is the clamps applied to the relative coordinates times the
\* image dimension rounded to the nearest integer, for every region and image size
C23_RoundedBeforeClamp ==
    b_pc = "done" =>
        \E x0, y0, w0, h0 \in NearRange :
            /\ IsNearest(x0, b_rel.x, b_W) /\ IsNearest(y0, b_rel.y, b_H)
            /\ IsNearest(w0, b_rel.w, b_W) /\ IsNearest(h0, b_rel.h, b_H)
            /\ b_out = Clamped(b_H, b_W, x0, y0, w0, h0)

-----------------------------------------------------------------------------
(* The layout of a page, checked under SpecLayout *)

\* the region that covers the whole page
FullPage == <<0, 0, MaxPage, MaxPage>>
\* the contours whose column sums vary more than their row sums
ArabicContours == SelectSeq(f_in.contours, LAMBDA b : MoreVertical(f_in.gray, b))

\* C24: for every page analyze_layout returns at least one Arabic region; when no contour is
\* classified Arabic, a page without contours included, the Arabic list is exactly the one
\* region that covers the full page
C24_ArabicFallback ==
    f_pc = "done" =>
        /\ f_out.arabic # <<>>
        /\ ArabicContours = <<>> => f_out.arabic = <<FullPage>>

-----------------------------------------------------------------------------
(* The digits-only candidate, checked under SpecSelect *)

\* the candidates of a kind
OfKind(kind) == SelectSeq(TheCandidates, LAMBDA c : c.kind = kind)
\* the joined text holds a digit, '/' or '-', the candidates' confidence is not negative, and
\* the joined text and its digits are different texts of the same validity
DigitsRivalJoined ==
    /\ pc = "done"
    /\ OfKind("joined") # <<>> /\ OfKind("digits") # <<>>
    /\ OfKind("joined")[1].c >= 0
    /\ OfKind("joined")[1].txt # OfKind("digits")[1].txt
    /\ normalize_field(TheKey, OfKind("joined")[1].txt).valid
           = normalize_field(TheKey, OfKind("digits")[1].txt).valid

\* C25: whenever a region's joined text holds a digit, '/' or '-' and the candidates'
\* confidence is >= 0, the joined candidate is not the chosen value if the digits-only
\* candidate has the same validity under the normalizer of the field, whatever its type
C25_DigitsBeatJoined ==
    DigitsRivalJoined =>
        /\ TheField.value # OfKind("joined")[1].txt
        /\ TheField.type \in {"name", "commune", "text"} => TheField.value = OfKind("digits")[1].txt
\* a name field whose tokens hold a letter and digits is reported as the digits alone
C25_Witness ==
    /\ DigitsRivalJoined
    /\ TheField.type = "name"
    /\ \E i \in 1..Len(TheTokens) : TheTokens[i].text = <<"A">>
    /\ TheField.value = OfKind("digits")[1].txt

-----------------------------------------------------------------------------
(* The returned lists of the overlap resolver, checked under SpecDedupe *)

\* every token of both input lists has a box
AllBoxed ==
    /\ \A i \in 1..Len(arabic) : arabic[i].bbox # NoBBox
    /\ \A j \in 1..Len(french) : french[j].bbox # NoBBox

\* C26: when every token of both input lists has a box, the returned lists hold no Arabic
\* token and French token whose boxes intersect
C26_NoOverlapSurvives ==
    (d_pc = "done" /\ AllBoxed) =>
        \A k \in 1..Len(keep_ar), l \in 1..Len(keep_fr) : ~Intersect(keep_ar[k].bbox, keep_fr[l].bbox)
\* an Arabic token was kept next to a French token it only touches, and the French token
\* under it was removed
C26_Witness ==
    /\ d_pc = "done" /\ AllBoxed
    /\ Len(arabic) = 1 /\ Len(french) = 2
    /\ Intersect(arabic[1].bbox, french[1].bbox) /\ ~Intersect(arabic[1].bbox, french[2].bbox)
    /\ keep_ar = arabic /\ keep_fr = <<french[2]>>

\* the tokens of a list that are not in the returned list
Removed(list, kept) == {t \in Range(list) : t \notin Range(kept)}
\* some token of others has a box that intersects the box of t and a confidence of at least
\* that of t, or above it when strict
Outweighed(t, others, strict) ==
    \E j \in 1..Len(others) :
        /\ t.bbox # NoBBox /\ others[j].bbox # NoBBox
        /\ Intersect(t.bbox, others[j].bbox)
        /\ IF strict THEN others[j].confidence > t.confidence ELSE others[j].confidence >= t.confidence

\* C27: for every removed token the returned lists hold a token of the other language whose
\* box intersects the removed token's box and whose confidence is at least as high
C27_SurvivorJustifies ==
    d_pc = "done" =>
        /\ \A t \in Removed(arabic, keep_ar) : Outweighed(t, keep_fr, FALSE)
        /\ \A t \in Removed(french, keep_fr) : Outweighed(t, keep_ar, FALSE)

\* C27, with the two passes of lines 91-127: a removed French token intersects a returned
\* Arabic token of strictly higher confidence; a removed Arabic token intersects a French
\* token of the input, returned or not, of at least its confidence
C27_RemovalJustified ==
    d_pc = "done" =>
        /\ \A t \in Removed(arabic, keep_ar) : Outweighed(t, french, FALSE)
        /\ \A t \in Removed(french, keep_fr) : Outweighed(t, keep_ar, TRUE)
\* an Arabic token was removed for a French token that a second, returned Arabic token
\* removed in its turn
C27_Witness ==
    /\ d_pc = "done"
    /\ Len(arabic) = 2 /\ Len(french) = 1
    /\ keep_ar = <<arabic[2]>> /\ keep_fr = <<>>
    /\ Outweighed(arabic[1], french, FALSE)
    /\ Outweighed(french[1], keep_ar, TRUE)

-----------------------------------------------------------------------------
(* The normalizer applied to its own result, checked under SpecNorm *)

\* the types of the typed normalizers
TypedTypes == {"cin", "date", "phone", "receipt_no", "ice", "if"}

\* C28: for every key with a typed normalizer and every text whose result is valid with value
\* v, the result for v under the same key is valid with the same value v
C28_CanonicalFixedPoint ==
    (n_pc = "done" /\ n_out # Raised /\ n_out.type \in TypedTypes /\ n_out.valid) =>
        LET again == normalize_field(n_key, n_out.value)
        IN  again # Raised /\ again.valid /\ again.value = n_out.value

\* the gazetteer names the text matches by substring, in either direction
MatchedCommunes ==
    LET lbase == Lower(Title(squash_spaces(OrEmpty(n_text))))
    IN  {c \in Range(COMMUNES_CASA) : Contains(Lower(c), lbase) \/ Contains(lbase, Lower(c))}

\* C29: the result of normalize_field is the same in every process: an administrative-area
\* text that matches several gazetteer names is mapped to the same name whichever of them the
\* process iterates first
C29_SameInEveryProcess ==
    (n_pc = "done" /\ n_out # Raised /\ n_out.type = "commune") =>
        \A c \in MatchedCommunes : n_out.value = c

-----------------------------------------------------------------------------
(* The script filter of the hybrid pass, checked under SpecHybrid *)

\* the text holds a character of U+0600..U+06FF
HasArabicChar(t) == t # NoneStr /\ \E i \in 1..Len(t) : t[i] \in ArabicLetters \cup Range(ArDigits)
\* the text holds a letter a-z or A-Z
HasAsciiLetter(t) ==
    t # NoneStr /\ \E i \in 1..Len(t) : \E j \in 1..26 : t[i] = LowerLetters[j] \/ t[i] = UpperLetters[j]
\* the tokens an engine returned
Returned(results) == IF results.none THEN {} ELSE Range(results.tokens)

\* C30: the result of process_document has the keys 'arabic' and 'french'; every token under
\* 'arabic' holds a character of U+0600..U+06FF, every token under 'french' a letter a-z or
\* A-Z, and a returned token whose text has neither is in neither list
C30_ScriptFilter ==
    f_pc = "done" =>
        /\ DOMAIN f_out = {"arabic", "french"}
        /\ \A i \in 1..Len(f_out.arabic) : HasArabicChar(f_out.arabic[i].text)
        /\ \A i \in 1..Len(f_out.french) : HasAsciiLetter(f_out.french[i].text)
        /\ \A t \in Returned(f_in.arabic) \cup Returned(f_in.french) :
               (~HasArabicChar(t.text) /\ ~HasAsciiLetter(t.text)) =>
                   t \notin Range(f_out.arabic) \cup Range(f_out.french)

====
